---- MODULE Spec2Model ----
(***************************************************************************)
(* A model of the SEC filing pipeline of the stock tracker:                *)
(*   backend/server.py                    Form 4 refresh endpoint          *)
(*   generate_static_data_enhanced.py     Form 4 static generator          *)
(*   fetch_institutional_ownership.py     13F holdings scraper             *)
(*                                                                         *)
(* Text is a sequence of one-character strings, so that the conversions of *)
(* the code (strip, float, int, isdigit, string comparison) are computed   *)
(* character by character.  An optional value (Python's None) is a         *)
(* sequence of length 0 or 1: <<>> is None and <<v>> is the value v.       *)
(***************************************************************************)
EXTENDS Integers, Sequences, FiniteSets, TLC

VARIABLES
    pc,               \* position of the modelled run
    variant,          \* "server" or "static": which Form 4 program runs
    xml_content,      \* parse_form4_xml: the document handed to it
    transactions,     \* parse_form4_xml: the list it returned
    all_transactions, \* the records a run accumulated / the store's content
    executives,       \* the executive summary computed from all_transactions
    html_content,     \* parse_sec_filings_list: the index page handed to it
    filings,          \* parse_sec_filings_list: the list it returned
    xml_text,         \* parse_13f_xml_robust: the document handed to it
    xml_result,       \* parse_13f_xml_robust: what it returned (None or a holding)
    text_content,     \* parse_13f_text_strict: the lines of the text handed to it
    text_result,      \* parse_13f_text_strict: what it returned (None or a holding)
    holdings,         \* the holdings handed to calculate_stats / generate_cluster_data
    stats,            \* what calculate_stats returned (None or the statistics)
    cluster,          \* what generate_cluster_data returned
    investor_idx,     \* fetch_latest_13f_filings: the investor the loop is at
    filing_idx,       \* the filing the loop over the filings is at
    soup,             \* the links of the filing's documents page (None before it is fetched)
    strategy,         \* download_and_parse_13f: the strategy (1, 2, 3) being tried
    link_idx,         \* the link the loop over soup.find_all('a') is at
    result,           \* what download_and_parse_13f returned
    fetched,          \* history: the documents requested for the current filing
    last_io,          \* history: whether the last request or sleep was a request
    back_to_back,     \* history: a request was issued with no sleep since the one before
    outcome,          \* how the run ended ("running" until then)
    store,            \* db.transactions
    failed_filings    \* history: the filings (by index) one of whose requests raised

vRun == <<investor_idx, filing_idx, soup, strategy, link_idx, result, fetched,
          last_io, back_to_back, outcome, store, failed_filings>>

vars == <<pc, variant, xml_content, transactions, all_transactions, executives,
          html_content, filings, xml_text, xml_result, text_content, text_result,
          holdings, stats, cluster, vRun>>

vForm4 == <<xml_content, transactions>>

vSummary == <<all_transactions, executives>>

vLocator == <<html_content, filings>>

vXml13F == <<xml_text, xml_result>>

vText13F == <<text_content, text_result>>

vAggregate == <<holdings, stats, cluster>>

\* What an action of one part leaves alone: the variables of the other parts.
NotForm4 == <<vSummary, vLocator, vXml13F, vText13F, vAggregate, vRun>>

NotSummary == <<vForm4, vLocator, vXml13F, vText13F, vAggregate, vRun>>

NotLocator == <<vForm4, vSummary, vXml13F, vText13F, vAggregate, vRun>>

NotXml13F == <<vForm4, vSummary, vLocator, vText13F, vAggregate, vRun>>

NotText13F == <<vForm4, vSummary, vLocator, vXml13F, vAggregate, vRun>>

NotAggregate == <<vForm4, vSummary, vLocator, vXml13F, vText13F, vRun>>

(***************************************************************************)
(* Text and numbers                                                        *)
(***************************************************************************)
Digits == {"0", "1", "2", "3", "4", "5", "6", "7", "8", "9"}

Whitespace == {" "}

None == <<>>

Some(v) == <<v>>

DigitVal(c) ==
    CASE c = "0" -> 0 [] c = "1" -> 1 [] c = "2" -> 2 [] c = "3" -> 3
      [] c = "4" -> 4 [] c = "5" -> 5 [] c = "6" -> 6 [] c = "7" -> 7
      [] c = "8" -> 8 [] c = "9" -> 9

\* Code points of the characters that occur in compared strings (ASCII).
Ord(c) ==
    CASE c = " " -> 32 [] c = "-" -> 45 [] c = "/" -> 47
      [] c \in Digits -> 48 + DigitVal(c)
      [] OTHER -> 65

RECURSIVE LStrip(_)
LStrip(s) == IF s # <<>> /\ Head(s) \in Whitespace THEN LStrip(Tail(s)) ELSE s

RECURSIVE RStrip(_)
RStrip(s) ==
    IF s # <<>> /\ s[Len(s)] \in Whitespace
    THEN RStrip(SubSeq(s, 1, Len(s) - 1))
    ELSE s

\* str.strip()
Strip(s) == RStrip(LStrip(s))

\* str.isdigit() on the characters of the model: non-empty, digits only.
IsDigitStr(s) == s # <<>> /\ \A i \in 1..Len(s) : s[i] \in Digits

\* int(s) for a string of digits.
RECURSIVE IntOf(_)
IntOf(s) == IF s = <<>> THEN 0 ELSE IntOf(SubSeq(s, 1, Len(s) - 1)) * 10 + DigitVal(s[Len(s)])

\* a > b on Python strings: lexicographic by code point, a proper prefix is smaller.
RECURSIVE StrGt(_, _)
StrGt(a, b) ==
    IF a = <<>> THEN FALSE
    ELSE IF b = <<>> THEN TRUE
    ELSE IF Ord(Head(a)) # Ord(Head(b)) THEN Ord(Head(a)) > Ord(Head(b))
    ELSE StrGt(Tail(a), Tail(b))

(***************************************************************************)
(* float(): a float is modelled by its exact decimal value, counted in     *)
(* hundredths (FloatUnit); the product of two floats counts in             *)
(* ten-thousandths.  float(text) raises on None and on text that is not a  *)
(* decimal numeral (after stripping white space).                          *)
(***************************************************************************)
DotAt(s) == {i \in 1..Len(s) : s[i] = "."}

IsDecimal(s) ==
    /\ s # <<>>
    /\ \A i \in 1..Len(s) : s[i] \in Digits \cup {"."}
    /\ Cardinality(DotAt(s)) <= 1
    /\ \E i \in 1..Len(s) : s[i] \in Digits
    /\ \A i \in DotAt(s) : Len(s) - i <= 2

\* float(t) raises TypeError for None and ValueError for a non-numeral.
FloatRaises(t) == t = None \/ ~IsDecimal(Strip(t[1]))

FloatOf(t) ==
    LET s == Strip(t[1])
        d == DotAt(s)
    IN  IF d = {} THEN IntOf(s) * 100
        ELSE LET i == CHOOSE j \in d : TRUE
                 frac == SubSeq(s, i + 1, Len(s))
             IN  IntOf(SubSeq(s, 1, i - 1)) * 100
                   + (IF Len(frac) = 1 THEN IntOf(frac) * 10 ELSE IntOf(frac))

(***************************************************************************)
(* Form 4 documents.  ET.fromstring either raises (wellFormed = FALSE) or  *)
(* gives a tree; find() gives None (<<>>) or an element <<text>>, whose    *)
(* text is None (<<>>) or a string <<chars>>.                              *)
(***************************************************************************)
Elem(chars) == Some(Some(chars))

EmptyElem == Some(None)

Absent == None

TextOf(elem) == elem[1]

D_2024_01_15 == <<"2", "0", "2", "4", "-", "0", "1", "-", "1", "5">>

D_2024_03_01 == <<"2", "0", "2", "4", "-", "0", "3", "-", "0", "1">>

D_2024_06_30 == <<"2", "0", "2", "4", "-", "0", "6", "-", "3", "0">>

D_2024_09_30 == <<"2", "0", "2", "4", "-", "0", "9", "-", "3", "0">>

N_Bhusri == <<"B", "h", "u", "s", "r", "i">>

N_Fernandez == <<"F", "e", "r", "n", "a", "n", "d", "e", "z">>

T_Executive == <<"E", "x", "e", "c", "u", "t", "i", "v", "e">>

T_CEO == <<"C", "E", "O">>

\* Transactions with date, shares and price all usable, in every combination.
CompleteTrans ==
    [transactionDate : {Elem(D_2024_01_15), Elem(D_2024_03_01)},
     transactionShares : {Elem(<<"1", "0", "0">>), Elem(<<" ", "2", ".", "5">>)},
     transactionPricePerShare : {Elem(<<"1", "0">>)},
     transactionAcquiredDisposedCode :
         {Absent, Elem(<<"D">>), Elem(<<"A">>), Elem(<<"D", " ">>), EmptyElem}]

\* Transactions with one field missing, empty or not a number.
DefectiveTrans ==
    LET ok == [transactionDate |-> Elem(D_2024_01_15),
               transactionShares |-> Elem(<<"1", "0", "0">>),
               transactionPricePerShare |-> Elem(<<"0", ".", "5">>),
               transactionAcquiredDisposedCode |-> Elem(<<"D">>)]
    IN  {[ok EXCEPT !.transactionDate = Absent],
         [ok EXCEPT !.transactionShares = Absent],
         [ok EXCEPT !.transactionPricePerShare = Absent],
         [ok EXCEPT !.transactionShares = Elem(<<"N", "/", "A">>)],
         [ok EXCEPT !.transactionPricePerShare = EmptyElem],
         ok}

Form4Trans == CompleteTrans \cup DefectiveTrans

MaxTrans == 2

RECURSIVE SeqsUpTo(_, _)
SeqsUpTo(S, n) ==
    IF n = 0 THEN {<<>>}
    ELSE LET shorter == SeqsUpTo(S, n - 1)
         IN  shorter \cup {Append(q, x) : q \in {r \in shorter : Len(r) = n - 1}, x \in S}

Form4Owners ==
    {Absent,
     Some([rptOwnerName |-> Absent, officerTitle |-> Absent]),
     Some([rptOwnerName |-> Elem(N_Bhusri), officerTitle |-> Elem(T_CEO)]),
     Some([rptOwnerName |-> Elem(N_Fernandez), officerTitle |-> Absent])}

Form4Docs ==
    {[wellFormed |-> FALSE, reportingOwner |-> Absent, nonDerivativeTransaction |-> <<>>]}
    \cup [wellFormed : {TRUE},
          reportingOwner : Form4Owners,
          nonDerivativeTransaction : SeqsUpTo(Form4Trans, MaxTrans)]

NoDoc == [wellFormed |-> FALSE, reportingOwner |-> Absent, nonDerivativeTransaction |-> <<>>]

(***************************************************************************)
(* parse_form4_xml                                                         *)
(***************************************************************************)
\* Mutant: the code is stripped before it is compared, so "D " counts as a disposal.
TransType_Stripped(acquired_disposed) ==
    LET acq_disp == IF acquired_disposed # Absent THEN TextOf(acquired_disposed)
                    ELSE Some(<<"D">>)
    IN  IF acq_disp # None /\ Strip(acq_disp[1]) = <<"D">> THEN "Sale" ELSE "Purchase"

\* trans_type = "Sale" if acq_disp == "D" else "Purchase", with "D" for a missing element
TransType(acquired_disposed) ==
    LET acq_disp == IF acquired_disposed # Absent THEN TextOf(acquired_disposed)
                    ELSE Some(<<"D">>)
    IN  IF acq_disp = Some(<<"D">>) THEN "Sale" ELSE "Purchase"

\* Mutant: the total is the share count scaled, the price is ignored.
TotalVal_SharesOnly(shares_val, price_val) == shares_val * 100

TotalVal(shares_val, price_val) == shares_val * price_val

\* The dictionary appended for one transaction (the fields both programs share).
Form4Record(owner_name, title, trans, filing_date) ==
    LET shares_val == FloatOf(TextOf(trans.transactionShares))
        price_val == FloatOf(TextOf(trans.transactionPricePerShare))
    IN  [executive_name |-> owner_name,
         executive_title |-> title,
         transaction_date |-> TextOf(trans.transactionDate),
         transaction_type |-> TransType(trans.transactionAcquiredDisposedCode),
         shares |-> shares_val,
         price_per_share |-> price_val,
         total_value |-> TotalVal(shares_val, price_val),
         filing_date |-> filing_date,
         form_type |-> "Form 4"]

\* all([trans_date is not None, shares is not None, price is not None])
HasAllFields(trans) ==
    /\ trans.transactionDate # Absent
    /\ trans.transactionShares # Absent
    /\ trans.transactionPricePerShare # Absent

\* The inner try block: float() raising skips the transaction.
TransYieldsRecord(trans) ==
    /\ HasAllFields(trans)
    /\ ~FloatRaises(TextOf(trans.transactionShares))
    /\ ~FloatRaises(TextOf(trans.transactionPricePerShare))

\* Mutant: the first transaction that is skipped ends the loop.
RECURSIVE ParseTransactions_StopsAtDefect(_, _, _, _)
ParseTransactions_StopsAtDefect(owner_name, title, list, filing_date) ==
    IF list = <<>> THEN <<>>
    ELSE IF TransYieldsRecord(Head(list))
         THEN <<Form4Record(owner_name, title, Head(list), filing_date)>>
                \o ParseTransactions_StopsAtDefect(owner_name, title, Tail(list), filing_date)
         ELSE <<>>

RECURSIVE ParseTransactions(_, _, _, _)
ParseTransactions(owner_name, title, list, filing_date) ==
    IF list = <<>> THEN <<>>
    ELSE LET rest == ParseTransactions(owner_name, title, Tail(list), filing_date)
         IN  IF TransYieldsRecord(Head(list))
             THEN <<Form4Record(owner_name, title, Head(list), filing_date)>> \o rest
             ELSE rest

Form4Parse(xml, filing_date) ==
    IF ~xml.wellFormed THEN <<>>
    ELSE IF xml.reportingOwner = Absent THEN <<>>
    ELSE LET owner == xml.reportingOwner[1]
         IN  IF owner.rptOwnerName = Absent THEN <<>>
             ELSE ParseTransactions(
                      TextOf(owner.rptOwnerName),
                      IF owner.officerTitle # Absent THEN TextOf(owner.officerTitle)
                      ELSE Some(T_Executive),
                      xml.nonDerivativeTransaction,
                      filing_date)

\* backend/server.py
parse_form4_xml(xml, filing_date) == Form4Parse(xml, filing_date)

\* generate_static_data_enhanced.py: the same parser; each record also carries
\* 'id' = f"{owner_name}_{trans_date_str}_{shares_val}".
RECURSIVE WithIds(_)
WithIds(list) ==
    IF list = <<>> THEN <<>>
    ELSE LET r == Head(list)
         IN  <<r @@ ("id" :> <<r.executive_name, r.transaction_date, r.shares>>)>>
               \o WithIds(Tail(list))

parse_form4_xml_static(xml, filing_date) == WithIds(Form4Parse(xml, filing_date))

Variants == {"server", "static"}

(***************************************************************************)
(* list.sort(key=..., reverse=True): stable, descending.                   *)
(***************************************************************************)
\* key(a) > key(b) for the sort keys of the programs; dates compare as strings.
KeyGreater(key, a, b) ==
    CASE key = "transaction_date" -> StrGt(a.transaction_date[1], b.transaction_date[1])
      [] key = "total_sales" -> a.total_sales > b.total_sales
      [] key = "shares" -> a.shares > b.shares
      [] key = "value" -> a.value > b.value

\* Where x goes in a descending list: behind every element that is not smaller.
RECURSIVE InsertDesc(_, _, _)
InsertDesc(sorted, x, key) ==
    IF sorted = <<>> THEN <<x>>
    ELSE IF KeyGreater(key, x, Head(sorted)) THEN <<x>> \o sorted
    ELSE <<Head(sorted)>> \o InsertDesc(Tail(sorted), x, key)

RECURSIVE SortDesc(_, _)
SortDesc(list, key) ==
    IF list = <<>> THEN <<>>
    ELSE InsertDesc(SortDesc(SubSeq(list, 1, Len(list) - 1), key), list[Len(list)], key)

(***************************************************************************)
(* generate_executives_summary / GET /executives.  exec_data is a dict:    *)
(* a list of entries in insertion order, one per name.                     *)
(***************************************************************************)
ExecIndex(exec_data, name) == {i \in 1..Len(exec_data) : exec_data[i].name = name}

\* Mutant: purchases are summed too.
SalesIncrement_AllTypes(trans) == trans.total_value

\* What one record adds to total_sales.
SalesIncrement(trans) == IF trans.transaction_type = "Sale" THEN trans.total_value ELSE 0

\* Mutant: the date of the record seen last is kept, whether later or not.
ExecStep_LastSeenDate(exec_data, trans) ==
    LET name == trans.executive_name
        known == IF ExecIndex(exec_data, name) # {} THEN exec_data
                 ELSE Append(exec_data,
                             [name |-> name, total_sales |-> 0, transaction_count |-> 0,
                              latest_transaction |-> trans.transaction_date])
        i == CHOOSE j \in ExecIndex(known, name) : TRUE
        e == known[i]
    IN  [known EXCEPT ![i] =
            [name |-> name,
             total_sales |-> e.total_sales + SalesIncrement(trans),
             transaction_count |-> e.transaction_count + 1,
             latest_transaction |-> trans.transaction_date]]

ExecStep(exec_data, trans) ==
    LET name == trans.executive_name
        known == IF ExecIndex(exec_data, name) # {} THEN exec_data
                 ELSE Append(exec_data,
                             [name |-> name, total_sales |-> 0, transaction_count |-> 0,
                              latest_transaction |-> trans.transaction_date])
        i == CHOOSE j \in ExecIndex(known, name) : TRUE
        e == known[i]
    IN  [known EXCEPT ![i] =
            [name |-> name,
             total_sales |-> e.total_sales + SalesIncrement(trans),
             transaction_count |-> e.transaction_count + 1,
             latest_transaction |->
                 IF StrGt(trans.transaction_date[1], e.latest_transaction[1])
                 THEN trans.transaction_date ELSE e.latest_transaction]]

RECURSIVE ExecFold(_, _)
ExecFold(exec_data, list) ==
    IF list = <<>> THEN exec_data ELSE ExecFold(ExecStep(exec_data, Head(list)), Tail(list))

generate_executives_summary(list) == SortDesc(ExecFold(<<>>, list), "total_sales")

(***************************************************************************)
(* The filings index.  soup.find('table', class tableFile2) gives None      *)
(* (table = FALSE) or the table; a data row has ncols <td> cells, of which *)
(* cols[0] is the filing-type label, cols[1] may hold the documents anchor *)
(* (None or its href) and cols[3] is the filing date.                      *)
(***************************************************************************)
ServerRowLimit == 20

StaticRowLimit == 100

RowLimit(v) == IF v = "server" THEN ServerRowLimit ELSE StaticRowLimit

SecOrigin == "https://www.sec.gov"

\* rows[:n]
Take(list, n) == SubSeq(list, 1, IF Len(list) < n THEN Len(list) ELSE n)

\* Mutant: the filing-type label is not looked at.
RowIsFiling_AnyLabel(row) == row.ncols >= 4 /\ row.link # None

\* len(cols) >= 4, and then: documents_link and filing_type == '4'
RowIsFiling(row) ==
    /\ row.ncols >= 4
    /\ row.link # None
    /\ Strip(row.label) = <<"4">>

FilingOfRow(row) ==
    [filing_date |-> Strip(row.date), documents_url |-> <<SecOrigin, row.link[1]>>]

RECURSIVE FilingsOfRows(_)
FilingsOfRows(rows) ==
    IF rows = <<>> THEN <<>>
    ELSE (IF RowIsFiling(Head(rows)) THEN <<FilingOfRow(Head(rows))>> ELSE <<>>)
           \o FilingsOfRows(Tail(rows))

parse_sec_filings_list(html, limit) ==
    IF ~html.table THEN <<>> ELSE FilingsOfRows(Take(html.rows, limit))

NoPage == [table |-> FALSE, rows |-> <<>>]

IdleLocator == html_content = NoPage /\ filings = <<>>

(***************************************************************************)
(* 13F information tables.  The tree ET.fromstring builds is the list of   *)
(* its elements in document order (root.iter()), each with its tag, its    *)
(* text and its depth; the subtree of an element is the element and the    *)
(* deeper elements that directly follow it.                                *)
(***************************************************************************)
WDAY_CUSIP == <<"9", "8", "1", "3", "8", "H", "1", "0", "1">>

OTHER_CUSIP == <<"0", "3", "7", "8", "3", "3", "1", "0", "0">>

AncestorLevels == 5

SharesFloor == 100000

CusipNumber == 98138

ValueScale == 1000

\* Tags of the documents whose lower-case form contains 'sshprnamt' or 'shrs'.
SharesTags == {"shrsOrPrnAmt", "sshPrnamt", "sshPrnamtType"}

\* Tags whose lower-case form contains 'value' ('valueUSD' is never in a lower-case tag).
ValueTags == {"value"}

Node(tag, text, depth) == [tag |-> tag, text |-> text, depth |-> depth]

\* element.iter(): the element and its descendants, in document order
Subtree(nodes, i) ==
    {j \in i..Len(nodes) : \A k \in (i + 1)..j : nodes[k].depth > nodes[i].depth}

\* child.text and child.text.strip().isdigit()
HasDigits(node) == node.text # None /\ IsDigitStr(Strip(node.text[1]))

Max(S) == CHOOSE x \in S : \A y \in S : y <= x

\* The last element of the subtree with one of the tags and a number as text:
\* its number, or None.
LastNumber(nodes, i, tags) ==
    LET found == {j \in Subtree(nodes, i) : nodes[j].tag \in tags /\ HasDigits(nodes[j])}
    IN  IF found = {} THEN None ELSE Some(IntOf(Strip(nodes[Max(found)].text[1])))

\* Mutant: the plausibility floor is not applied.
SharesValid_NoFloor(shares_found) == shares_found # CusipNumber

\* Mutant: the floor itself is let through (">=" for ">").
SharesValid_AtFloor(shares_found) == shares_found # CusipNumber /\ shares_found >= SharesFloor

\* if shares_found != 98138 and shares_found > 100000
SharesValid(shares_found) == shares_found # CusipNumber /\ shares_found > SharesFloor

\* One round of "for _ in range(5)" and the rounds after it: parent becomes the
\* element before it in document order (None once parent is the root).
RECURSIVE WalkUp(_, _, _)
WalkUp(nodes, parent, rounds) ==
    IF rounds = 0 \/ parent = 1 THEN None
    ELSE LET up == parent - 1
             shares_found == LastNumber(nodes, up, SharesTags)
             value_found == LastNumber(nodes, up, ValueTags)
         IN  IF /\ shares_found # None /\ shares_found[1] # 0
                /\ value_found # None /\ value_found[1] # 0
                /\ SharesValid(shares_found[1])
             THEN Some([shares |-> shares_found[1],
                        value_dollars |-> value_found[1] * ValueScale])
             ELSE WalkUp(nodes, up, rounds - 1)

\* if elem.text and elem.text.strip() == WDAY_CUSIP
IsCusipHit(node) == node.text # None /\ node.text[1] # <<>> /\ Strip(node.text[1]) = WDAY_CUSIP

\* Mutant: the traversal ends at the first element that carries the identifier,
\* whether its shares and value validate or not.
RECURSIVE SearchFrom_FirstHitOnly(_, _)
SearchFrom_FirstHitOnly(nodes, e) ==
    IF e > Len(nodes) THEN None
    ELSE IF IsCusipHit(nodes[e]) THEN WalkUp(nodes, e, AncestorLevels)
         ELSE SearchFrom_FirstHitOnly(nodes, e + 1)

\* for elem in root.iter(), from element e on
RECURSIVE SearchFrom(_, _)
SearchFrom(nodes, e) ==
    IF e > Len(nodes) THEN None
    ELSE IF IsCusipHit(nodes[e]) /\ WalkUp(nodes, e, AncestorLevels) # None
         THEN WalkUp(nodes, e, AncestorLevels)
         ELSE SearchFrom(nodes, e + 1)

\* An empty text or one ET.fromstring rejects (wellFormed = FALSE) gives None.
parse_13f_xml_robust(xml) ==
    IF ~xml.wellFormed THEN None ELSE SearchFrom(xml.nodes, 1)

NoXml == [wellFormed |-> FALSE, nodes |-> <<>>]

IdleXml13F == xml_text = NoXml /\ xml_result = None

(***************************************************************************)
(* parse_13f_text_strict.  text_content is the list of the text's lines    *)
(* (text_content.split('\n')); line numbers count from 1.                  *)
(***************************************************************************)
LowerCase == <<"a", "b", "c", "d", "e", "f", "g", "h", "i", "j", "k", "l", "m",
               "n", "o", "p", "q", "r", "s", "t", "u", "v", "w", "x", "y", "z">>

UpperCase == <<"A", "B", "C", "D", "E", "F", "G", "H", "I", "J", "K", "L", "M",
               "N", "O", "P", "Q", "R", "S", "T", "U", "V", "W", "X", "Y", "Z">>

\* c.upper(), for the letters; every other character is unchanged
UpperOfLetter == [k \in 1..26 |-> UpperCase[k]]

LowerIndex == [c \in {LowerCase[k] : k \in 1..26} |-> CHOOSE k \in 1..26 : LowerCase[k] = c]

\* str.upper()
Upper(s) ==
    [i \in 1..Len(s) |->
        IF s[i] \in DOMAIN LowerIndex THEN UpperOfLetter[LowerIndex[s[i]]] ELSE s[i]]

\* sub in s
Contains(s, sub) ==
    \E i \in 1..(Len(s) - Len(sub) + 1) : SubSeq(s, i, i + Len(sub) - 1) = sub

\* '\n'.join(lines)
RECURSIVE JoinLines(_)
JoinLines(lines) ==
    IF lines = <<>> THEN <<>>
    ELSE IF Len(lines) = 1 THEN lines[1]
    ELSE lines[1] \o <<"\n">> \o JoinLines(Tail(lines))

\* The end of the match of [\d,]* that starts at position i.
RECURSIVE RunEnd(_, _)
RunEnd(s, i) ==
    IF i <= Len(s) /\ s[i] \in Digits \cup {","} THEN RunEnd(s, i + 1) ELSE i - 1

\* re.findall(r'(\d[\d,]*)', s), from position i on
RECURSIVE FindNumbers(_, _)
FindNumbers(s, i) ==
    IF i > Len(s) THEN <<>>
    ELSE IF s[i] \in Digits
         THEN <<SubSeq(s, i, RunEnd(s, i + 1))>> \o FindNumbers(s, RunEnd(s, i + 1) + 1)
         ELSE FindNumbers(s, i + 1)

\* int(num_str.replace(',', ''))
RECURSIVE WithoutCommas(_)
WithoutCommas(s) ==
    IF s = <<>> THEN <<>>
    ELSE (IF Head(s) = "," THEN <<>> ELSE <<Head(s)>>) \o WithoutCommas(Tail(s))

NumberOf(num_str) == IntOf(WithoutCommas(num_str))

CusipNumberLong == 98138101

MinNumber == 10000

SharesBandLow == 100000

SharesBandHigh == 50000000

ValueBandLow == 10000000

PriceMin == 150

PriceMax == 350

LinesBefore == 3

LinesAfter == 4

\* lines[max(0, i - 3) : min(len(lines), i + 4)], for the 1-based line i
ContextLines(lines, i) ==
    SubSeq(lines,
           IF i - LinesBefore < 1 THEN 1 ELSE i - LinesBefore,
           IF i + LinesAfter - 1 > Len(lines) THEN Len(lines) ELSE i + LinesAfter - 1)

\* Mutant: the context is not checked for the name.
MentionsWorkday_Unchecked(context_lines) == TRUE

\* 'WORKDAY' in context_text or 'WDAY' in context_text
MentionsWorkday(context_lines) ==
    LET context_text == Upper(JoinLines(context_lines))
    IN  \/ Contains(context_text, <<"W", "O", "R", "K", "D", "A", "Y">>)
        \/ Contains(context_text, <<"W", "D", "A", "Y">>)

\* The numbers of one line that all_numbers receives.
RECURSIVE KeptNumbers(_)
KeptNumbers(num_strs) ==
    IF num_strs = <<>> THEN <<>>
    ELSE LET num == NumberOf(Head(num_strs))
         IN  (IF num = CusipNumber \/ num = CusipNumberLong THEN <<>>
              ELSE IF num > MinNumber THEN <<num>>
              ELSE <<>>) \o KeptNumbers(Tail(num_strs))

\* all_numbers after the loop over context_lines
RECURSIVE AllNumbers(_)
AllNumbers(context_lines) ==
    IF context_lines = <<>> THEN <<>>
    ELSE (IF Contains(Head(context_lines), WDAY_CUSIP) THEN <<>>
          ELSE KeptNumbers(FindNumbers(Head(context_lines), 1)))
           \o AllNumbers(Tail(context_lines))

Min(S) == CHOOSE x \in S : \A y \in S : x <= y

Range(list) == {list[k] : k \in 1..Len(list)}

\* Mutant: the price gate lets every pair through.
PriceGate_Open(shares, value) == TRUE

\* expected_min < value < expected_max
PriceGate(shares, value) == shares * PriceMin < value /\ value < shares * PriceMax

\* What the loop body does for the line i: None to go on with the next line,
\* or the record it returns.
TextOccurrence(lines, i) ==
    IF ~Contains(lines[i], WDAY_CUSIP) THEN None
    ELSE LET context_lines == ContextLines(lines, i)
             all_numbers == AllNumbers(context_lines)
             shares_candidates ==
                 {n \in Range(all_numbers) : SharesBandLow < n /\ n < SharesBandHigh}
             value_candidates == {n \in Range(all_numbers) : n > ValueBandLow}
         IN  IF ~MentionsWorkday(context_lines) THEN None
             ELSE IF Len(all_numbers) < 2 THEN None
             ELSE IF shares_candidates = {} \/ value_candidates = {} THEN None
             ELSE IF PriceGate(Min(shares_candidates), Min(value_candidates))
                  THEN Some([shares |-> Min(shares_candidates),
                             value_dollars |-> Min(value_candidates)])
                  ELSE None

\* The lines at which the loop body returns a record.
ReturningLines(lines) == {i \in 1..Len(lines) : TextOccurrence(lines, i) # None}

\* Mutant: the loop gives up after the first line that holds the identifier.
parse_13f_text_strict_FirstOccurrenceOnly(lines) ==
    LET hits == {i \in 1..Len(lines) : Contains(lines[i], WDAY_CUSIP)}
    IN  IF hits = {} THEN None ELSE TextOccurrence(lines, Min(hits))

parse_13f_text_strict(lines) ==
    IF ReturningLines(lines) = {} THEN None
    ELSE TextOccurrence(lines, Min(ReturningLines(lines)))

IdleText13F == text_content = <<>> /\ text_result = None

(***************************************************************************)
(* calculate_stats and generate_cluster_data.  by_investor is a dict: a    *)
(* list of holdings in insertion order, one per investor name.             *)
(***************************************************************************)
InvestorIndex(by_investor, name) ==
    {i \in 1..Len(by_investor) : by_investor[i].investor_name = name}

\* Mutant: ">=" for ">", a filing of the same date replaces the one kept.
Supersedes_OrEqual(h, kept) == ~StrGt(kept.filing_date, h.filing_date)

\* Mutant: the comparison is turned round, the older filing replaces the newer.
Supersedes_Older(h, kept) == StrGt(kept.filing_date, h.filing_date)

\* h['filing_date'] > by_investor[name]['filing_date']
Supersedes(h, kept) == StrGt(h.filing_date, kept.filing_date)

KeepMostRecent(by_investor, h) ==
    LET at == InvestorIndex(by_investor, h.investor_name)
    IN  IF at = {} THEN Append(by_investor, h)
        ELSE LET i == CHOOSE j \in at : TRUE
             IN  IF Supersedes(h, by_investor[i]) THEN [by_investor EXCEPT ![i] = h]
                 ELSE by_investor

\* The loop "for h in holdings" of both functions.
RECURSIVE ByInvestor(_, _)
ByInvestor(by_investor, list) ==
    IF list = <<>> THEN by_investor
    ELSE ByInvestor(KeepMostRecent(by_investor, Head(list)), Tail(list))

RECURSIVE SumField(_, _)
SumField(list, field) ==
    IF list = <<>> THEN 0 ELSE Head(list)[field] + SumField(Tail(list), field)

\* Mutant: the totals and the count run over every input record, superseded
\* filings included.
calculate_stats_CountsSuperseded(list) ==
    IF list = <<>> THEN None
    ELSE LET unique_holdings == SortDesc(ByInvestor(<<>>, list), "shares")
         IN  Some([total_institutional_shares |-> SumField(list, "shares"),
                   total_institutional_value |-> SumField(list, "value_dollars"),
                   number_of_institutions |-> Len(list),
                   largest_holder |-> unique_holdings[1].investor_name,
                   largest_holder_shares |-> unique_holdings[1].shares,
                   holdings_by_investor |-> unique_holdings])

calculate_stats(list) ==
    IF list = <<>> THEN None
    ELSE LET unique_holdings == SortDesc(ByInvestor(<<>>, list), "shares")
         IN  Some([total_institutional_shares |-> SumField(unique_holdings, "shares"),
                   total_institutional_value |-> SumField(unique_holdings, "value_dollars"),
                   number_of_institutions |-> Len(unique_holdings),
                   largest_holder |-> unique_holdings[1].investor_name,
                   largest_holder_shares |-> unique_holdings[1].shares,
                   holdings_by_investor |-> unique_holdings])

ClusterEntry(holding) ==
    [name |-> holding.investor_name,
     shares |-> holding.shares,
     value |-> holding.value_dollars,
     filing_date |-> holding.filing_date]

generate_cluster_data(list) ==
    LET by_investor == ByInvestor(<<>>, list)
    IN  SortDesc([i \in 1..Len(by_investor) |-> ClusterEntry(by_investor[i])], "value")

IdleAggregate == holdings = <<>> /\ stats = None /\ cluster = <<>>

(***************************************************************************)
(* The state of a run before it starts.                                    *)
(***************************************************************************)
IdleRun ==
    /\ investor_idx = 1
    /\ filing_idx = 1
    /\ soup = None
    /\ strategy = 1
    /\ link_idx = 1
    /\ result = None
    /\ fetched = <<>>
    /\ last_io = "none"
    /\ back_to_back = FALSE
    /\ outcome = "running"
    /\ store = <<>>
    /\ failed_filings = {}

(***************************************************************************)
(* Specification of the Form 4 parser: a document is drawn, then parsed.   *)
(***************************************************************************)
IdleSummary == all_transactions = <<>> /\ executives = <<>>

IdleForm4 == xml_content = NoDoc /\ transactions = <<>>

\* The parts a specification does not run stay in their initial state.
IdleExcept(parts) ==
    /\ IF "Form4" \in parts THEN TRUE ELSE IdleForm4
    /\ IF "Summary" \in parts THEN TRUE ELSE IdleSummary
    /\ IF "Locator" \in parts THEN TRUE ELSE IdleLocator
    /\ IF "Xml13F" \in parts THEN TRUE ELSE IdleXml13F
    /\ IF "Text13F" \in parts THEN TRUE ELSE IdleText13F
    /\ IF "Aggregate" \in parts THEN TRUE ELSE IdleAggregate
    /\ IF "Run" \in parts THEN TRUE ELSE IdleRun

InitForm4 ==
    /\ pc = "parse_form4"
    /\ variant \in Variants
    /\ xml_content \in Form4Docs
    /\ transactions = <<>>
    /\ IdleExcept({"Form4"})

ParseForm4 ==
    /\ pc = "parse_form4"
    /\ transactions' = IF variant = "server"
                       THEN parse_form4_xml(xml_content, D_2024_09_30)
                       ELSE parse_form4_xml_static(xml_content, D_2024_09_30)
    /\ pc' = "parsed_form4"
    /\ UNCHANGED <<variant, xml_content, NotForm4>>

NextForm4 == ParseForm4

SpecForm4 == InitForm4 /\ [][NextForm4]_vars

\* The source transactions that yield a record, and the one behind the k-th record.
YieldingTrans ==
    {i \in 1..Len(xml_content.nonDerivativeTransaction) :
        TransYieldsRecord(xml_content.nonDerivativeTransaction[i])}

SourceOfRecord(k) ==
    xml_content.nonDerivativeTransaction[
        CHOOSE i \in YieldingTrans : Cardinality({j \in YieldingTrans : j <= i}) = k]

\* C1: every record parse_form4_xml returns (server and static generator) has
\* total_value equal to the product of that record's shares and price_per_share.
C1_TotalValueIsProduct ==
    pc = "parsed_form4" =>
        \A k \in 1..Len(transactions) :
            transactions[k].total_value
                = transactions[k].shares * transactions[k].price_per_share

C1_Witness ==
    /\ pc = "parsed_form4"
    /\ Len(transactions) = 2
    /\ transactions[1].shares = 10000 /\ transactions[1].price_per_share = 1000
    /\ transactions[1].total_value = 10000000
    /\ transactions[2].shares = 250 /\ transactions[2].total_value = 250000

\* C2: every record has transaction_type Sale or Purchase; it is Sale exactly when
\* the source transaction's acquired/disposed element is absent or has the text "D".
C2_TypeFromAcquiredDisposed ==
    pc = "parsed_form4" =>
        \A k \in 1..Len(transactions) :
            LET code == SourceOfRecord(k).transactionAcquiredDisposedCode
            IN  /\ transactions[k].transaction_type \in {"Sale", "Purchase"}
                /\ transactions[k].transaction_type = "Sale"
                      <=> (code = Absent \/ code = Elem(<<"D">>))

C2_Witness ==
    /\ pc = "parsed_form4"
    /\ Len(transactions) = 2
    /\ SourceOfRecord(1).transactionAcquiredDisposedCode = Absent
    /\ transactions[1].transaction_type = "Sale"
    /\ SourceOfRecord(2).transactionAcquiredDisposedCode = Elem(<<"D", " ">>)
    /\ transactions[2].transaction_type = "Purchase"

(***************************************************************************)
(* Specification of the executive summary: the records of a run are drawn  *)
(* from what the parser produces; the static generator sorts them by date  *)
(* (main) before it summarises, the server summarises the stored records.  *)
(***************************************************************************)
MaxRecords == 3

SummaryRecords ==
    {Form4Record(Some(n), Some(T_Executive), t, D_2024_09_30) :
        n \in {N_Bhusri, N_Fernandez}, t \in CompleteTrans}

InitSummary ==
    /\ pc = "summarise"
    /\ variant \in Variants
    /\ all_transactions \in SeqsUpTo(SummaryRecords, MaxRecords)
    /\ executives = <<>>
    /\ IdleExcept({"Summary"})

\* generate_static_data_enhanced.py main(): sort, then generate_executives_summary
GenerateExecutivesStatic ==
    /\ pc = "summarise"
    /\ variant = "static"
    /\ all_transactions' = SortDesc(all_transactions, "transaction_date")
    /\ executives' = generate_executives_summary(all_transactions')
    /\ pc' = "summarised"
    /\ UNCHANGED <<variant, NotSummary>>

\* backend/server.py get_executives(): the stored records, as found
GetExecutives ==
    /\ pc = "summarise"
    /\ variant = "server"
    /\ executives' = generate_executives_summary(all_transactions)
    /\ pc' = "summarised"
    /\ UNCHANGED <<variant, all_transactions, NotSummary>>

\* backend/server.py get_transactions(): the stored records, sorted by
\* transaction date, are the response
GetTransactions ==
    /\ pc = "summarise"
    /\ variant = "server"
    /\ transactions' = SortDesc(all_transactions, "transaction_date")
    /\ pc' = "listed"
    /\ UNCHANGED <<variant, xml_content, vSummary, vLocator, vXml13F, vText13F,
                   vAggregate, vRun>>

NextSummary == GenerateExecutivesStatic \/ GetExecutives \/ GetTransactions

SpecSummary == InitSummary /\ [][NextSummary]_vars

RECURSIVE SumTotalValue(_)
SumTotalValue(S) ==
    IF S = {} THEN 0
    ELSE LET i == CHOOSE j \in S : TRUE
         IN  all_transactions[i].total_value + SumTotalValue(S \ {i})

RecordsOf(name) ==
    {i \in 1..Len(all_transactions) : all_transactions[i].executive_name = name}

SalesOf(name) == {i \in RecordsOf(name) : all_transactions[i].transaction_type = "Sale"}

\* C7: in the executive summary, each executive appears once, total_sales is the sum
\* of total_value over that executive's Sale records only, and transaction_count
\* counts all of the executive's records, purchases included.
C7_TotalSalesCountsSalesOnly ==
    pc = "summarised" =>
        /\ \A i \in 1..Len(all_transactions) :
              \E k \in 1..Len(executives) :
                  executives[k].name = all_transactions[i].executive_name
        /\ \A k \in 1..Len(executives) :
              /\ \A m \in 1..Len(executives) :
                    executives[m].name = executives[k].name => m = k
              /\ executives[k].total_sales = SumTotalValue(SalesOf(executives[k].name))
              /\ executives[k].transaction_count = Cardinality(RecordsOf(executives[k].name))

C7_Witness ==
    /\ pc = "summarised"
    /\ Len(executives) = 2
    /\ \E k \in 1..2 :
          /\ executives[k].transaction_count = 2
          /\ Cardinality(SalesOf(executives[k].name)) = 1
          /\ executives[k].total_sales = 10000000

(***************************************************************************)
(* Specification of the Form 4 filing locator: an index page is drawn,     *)
(* then parsed.  The k-th data row links to accession k.                   *)
(***************************************************************************)
MaxRows == 3

RowKinds ==
    [ncols : {3, 5},
     label : {<<"4">>, <<" ", "4", " ">>, <<"3">>, <<"4", "/", "A">>},
     date : {D_2024_09_30 \o <<" ">>},
     link : {None, Some(0)}]

\* The rows with their hrefs numbered in row order.
Numbered(kinds) ==
    [i \in 1..Len(kinds) |->
        [kinds[i] EXCEPT !.link = IF kinds[i].link = None THEN None ELSE Some(i)]]

IndexPages ==
    {NoPage} \cup {[table |-> TRUE, rows |-> Numbered(k)] : k \in SeqsUpTo(RowKinds, MaxRows)}

InitLocator ==
    /\ pc = "parse_index"
    /\ variant \in Variants
    /\ html_content \in IndexPages
    /\ filings = <<>>
    /\ IdleExcept({"Locator"})

ParseIndex ==
    /\ pc = "parse_index"
    /\ filings' = parse_sec_filings_list(html_content, RowLimit(variant))
    /\ pc' = "parsed_index"
    /\ UNCHANGED <<variant, html_content, NotLocator>>

NextLocator == ParseIndex

SpecLocator == InitLocator /\ [][NextLocator]_vars

\* The data rows with at least 4 cells, a documents link and the label "4".
Type4Rows ==
    {i \in 1..Len(html_content.rows) :
        /\ html_content.rows[i].ncols >= 4
        /\ html_content.rows[i].link # None
        /\ Strip(html_content.rows[i].label) = <<"4">>}

\* C8: for an index table no longer than the row scan limit, the Form 4 locator
\* returns exactly one entry per data row labelled "4" (with a documents link and at
\* least 4 cells), in row order; other rows contribute nothing.
C8_OneEntryPerType4RowInOrder ==
    (pc = "parsed_index" /\ html_content.table
        /\ Len(html_content.rows) <= RowLimit(variant)) =>
        /\ Len(filings) = Cardinality(Type4Rows)
        /\ \A k \in 1..Len(filings) :
              \E i \in Type4Rows :
                  /\ Cardinality({j \in Type4Rows : j <= i}) = k
                  /\ filings[k].documents_url = <<SecOrigin, i>>
                  /\ filings[k].filing_date = D_2024_09_30

\* Rows labelled 4, 3, 4 give two entries, for rows 1 and 3.
C8_Witness ==
    /\ pc = "parsed_index"
    /\ Len(html_content.rows) = 3
    /\ html_content.rows[1].label = <<"4">>
    /\ html_content.rows[2].label = <<"3">> /\ html_content.rows[2].link # None
    /\ html_content.rows[2].ncols = 5
    /\ html_content.rows[3].label = <<"4">>
    /\ Len(filings) = 2
    /\ filings[1].documents_url = <<SecOrigin, 1>>
    /\ filings[2].documents_url = <<SecOrigin, 3>>

(***************************************************************************)
(* Specification of the structured holdings parser: an information table   *)
(* is drawn, then parsed.                                                  *)
(***************************************************************************)
MaxInfoRows == 2

Blank == Some(<<" ">>)

\* One <infoTable> row in the layout of the form, or flat.
InfoRow(r) ==
    IF r.layout = "form"
    THEN <<Node("infoTable", Blank, 1),
           Node("nameOfIssuer", Some(<<"W", "O", "R", "K", "D", "A", "Y">>), 2),
           Node("cusip", Some(r.cusip), 2),
           Node("value", Some(r.value), 2),
           Node("shrsOrPrnAmt", Blank, 2),
           Node("sshPrnamt", Some(r.shares), 3),
           Node("sshPrnamtType", Some(<<"S", "H">>), 3)>>
    ELSE <<Node("infoTable", None, 1),
           Node("cusip", Some(r.cusip), 2),
           Node("sshPrnamt", Some(r.shares), 2),
           Node("value", Some(r.value), 2)>>

InfoRowKinds ==
    [layout : {"form", "flat"},
     cusip : {<<" ">> \o WDAY_CUSIP \o <<" ">>, OTHER_CUSIP},
     shares : {<<"1", "0", "0", "0", "0", "0", "0">>,
               <<"9", "8", "1", "3", "8", "1", "0", "1">>,
               <<"9", "8", "1", "3", "8">>,
               <<"1", "0", "0", "0", "0", "0">>},
     value : {<<"2", "5", "0", "0", "0", "0">>, <<"0">>}]

RECURSIVE InfoRows(_)
InfoRows(kinds) == IF kinds = <<>> THEN <<>> ELSE InfoRow(Head(kinds)) \o InfoRows(Tail(kinds))

\* The Workday rows in the layout of the form.
WorkdayRowKinds == {r \in InfoRowKinds : r.layout = "form" /\ r.cusip # OTHER_CUSIP}

\* A small position in another security, as the last row of a longer table.
TrailingRow ==
    [layout |-> "form", cusip |-> OTHER_CUSIP,
     shares |-> <<"1", "0", "0", "0", "0", "0">>,
     value |-> <<"2", "5", "0", "0", "0">>]

InfoTables ==
    {NoXml, [wellFormed |-> TRUE, nodes |-> <<Node("cusip", Some(WDAY_CUSIP), 0)>>]}
    \cup {[wellFormed |-> TRUE,
           nodes |-> <<Node("informationTable", Blank, 0)>> \o InfoRows(k)] :
             k \in SeqsUpTo(InfoRowKinds, MaxInfoRows)}
    \cup {[wellFormed |-> TRUE,
           nodes |-> <<Node("informationTable", Blank, 0)>>
                       \o InfoRows(k \o <<TrailingRow>>)] :
             k \in SeqsUpTo(WorkdayRowKinds, MaxInfoRows)}

InitXml13F ==
    /\ pc = "parse_13f_xml"
    /\ variant = "13f"
    /\ xml_text \in InfoTables
    /\ xml_result = None
    /\ IdleExcept({"Xml13F"})

Parse13FXml ==
    /\ pc = "parse_13f_xml"
    /\ xml_result' = parse_13f_xml_robust(xml_text)
    /\ pc' = "parsed_13f_xml"
    /\ UNCHANGED <<variant, xml_text, NotXml13F>>

NextXml13F == Parse13FXml

SpecXml13F == InitXml13F /\ [][NextXml13F]_vars

\* C3: parse_13f_xml_robust never returns a holding whose shares is a numeric form
\* of the identifier "98138H101", that is 98138 or 98138101.
C3_SharesNeverIdentifier ==
    (pc = "parsed_13f_xml" /\ xml_result # None) =>
        xml_result[1].shares \notin {98138, 98138101}

(***************************************************************************)
(* Specification of the text fallback parser: a text is drawn, then parsed. *)
(***************************************************************************)
MaxLines == 5

RECURSIVE Words(_)
Words(ws) ==
    IF ws = <<>> THEN <<>>
    ELSE IF Len(ws) = 1 THEN ws[1]
    ELSE ws[1] \o <<" ">> \o Words(Tail(ws))

N_1_000_000 == <<"1", ",", "0", "0", "0", ",", "0", "0", "0">>

N_250_000_000 == <<"2", "5", "0", ",", "0", "0", "0", ",", "0", "0", "0">>

N_500_000_000 == <<"5", "0", "0", ",", "0", "0", "0", ",", "0", "0", "0">>

N_500_000 == <<"5", "0", "0", ",", "0", "0", "0">>

N_98138101 == <<"9", "8", "1", "3", "8", "1", "0", "1">>

TextLines ==
    {WDAY_CUSIP,
     Words(<<<<"W", "O", "R", "K", "D", "A", "Y">>, WDAY_CUSIP, N_1_000_000, N_500_000_000>>),
     <<"W", "o", "r", "k", "d", "a", "y", " ", "I", "n", "c">>,
     Words(<<N_1_000_000, N_250_000_000>>),
     Words(<<N_1_000_000, N_500_000_000>>),
     Words(<<N_98138101, N_500_000>>),
     <<>>}

InitText13F ==
    /\ pc = "parse_13f_text"
    /\ variant = "13f"
    /\ text_content \in SeqsUpTo(TextLines, MaxLines)
    /\ text_result = None
    /\ IdleExcept({"Text13F"})

Parse13FText ==
    /\ pc = "parse_13f_text"
    /\ text_result' = parse_13f_text_strict(text_content)
    /\ pc' = "parsed_13f_text"
    /\ UNCHANGED <<variant, text_content, NotText13F>>

NextText13F == Parse13FText

SpecText13F == InitText13F /\ [][NextText13F]_vars

\* The identifier lines, and for one of them whether its window of 3 lines before
\* to 3 lines after names the company.
IdentifierLines == {i \in 1..Len(text_content) : Contains(text_content[i], WDAY_CUSIP)}

WindowNamesCompany(i) ==
    \E j \in 1..Len(text_content) :
        /\ i - 3 <= j /\ j <= i + 3
        /\ \/ Contains(Upper(text_content[j]), <<"W", "O", "R", "K", "D", "A", "Y">>)
           \/ Contains(Upper(text_content[j]), <<"W", "D", "A", "Y">>)

\* C4: parse_13f_text_strict emits no record from an identifier line whose window
\* names neither WORKDAY nor WDAY; if no identifier line has such a window it
\* returns nothing.
C4_NoRecordWithoutCompanyName ==
    pc = "parsed_13f_text" =>
        /\ \A i \in IdentifierLines :
              ~WindowNamesCompany(i) => TextOccurrence(text_content, i) = None
        /\ text_result # None =>
              \E i \in IdentifierLines :
                  /\ WindowNamesCompany(i)
                  /\ text_result = TextOccurrence(text_content, i)
        /\ (\A i \in IdentifierLines : ~WindowNamesCompany(i)) => text_result = None

\* A first identifier line with numbers but no name within 3 lines is passed over;
\* a later one with the name yields the record.
C4_Witness ==
    /\ pc = "parsed_13f_text"
    /\ Len(text_content) = 5
    /\ text_content[1] = WDAY_CUSIP
    /\ text_content[2] = Words(<<N_1_000_000, N_250_000_000>>)
    /\ ~WindowNamesCompany(1)
    /\ text_content[5] = <<"W", "o", "r", "k", "d", "a", "y", " ", "I", "n", "c">>
    /\ text_result # None

\* C5: every record parse_13f_text_strict returns has
\* 150 * shares <= value_dollars <= 350 * shares.
C5_ValueWithinPriceBand ==
    (pc = "parsed_13f_text" /\ text_result # None) =>
        /\ 150 * text_result[1].shares <= text_result[1].value_dollars
        /\ text_result[1].value_dollars <= 350 * text_result[1].shares

\* A window that holds an in-band and an out-of-band value: the record is in band.
C5_Witness ==
    /\ pc = "parsed_13f_text"
    /\ text_result = Some([shares |-> 1000000, value_dollars |-> 250000000])
    /\ \E j \in 1..Len(text_content) : text_content[j] = Words(<<N_1_000_000, N_500_000_000>>)

(***************************************************************************)
(* Specification of the aggregation: the holdings of a run are drawn, then *)
(* main() computes the statistics and the cluster data from them.          *)
(***************************************************************************)
MaxHoldings == 3

HoldingRecords ==
    {[investor_name |-> n, cik |-> n, filing_date |-> d,
      shares |-> a[1], value_dollars |-> a[2]] :
        n \in {"Vanguard Group", "BlackRock"},
        d \in {D_2024_06_30, D_2024_09_30},
        a \in {<<1000000, 250000000>>, <<1000000, 300000000>>, <<2000000, 400000000>>}}

InitAggregate ==
    /\ pc = "aggregate"
    /\ variant = "13f"
    /\ holdings \in SeqsUpTo(HoldingRecords, MaxHoldings)
    /\ stats = None
    /\ cluster = <<>>
    /\ IdleExcept({"Aggregate"})

\* main(): "if not holdings: return", else both functions
Aggregate ==
    /\ pc = "aggregate"
    /\ holdings # <<>>
    /\ stats' = calculate_stats(holdings)
    /\ cluster' = generate_cluster_data(holdings)
    /\ pc' = "aggregated"
    /\ UNCHANGED <<variant, holdings, NotAggregate>>

NoHoldings ==
    /\ pc = "aggregate"
    /\ holdings = <<>>
    /\ pc' = "no_holdings"
    /\ UNCHANGED <<variant, vAggregate, NotAggregate>>

NextAggregate == Aggregate \/ NoHoldings

SpecAggregate == InitAggregate /\ [][NextAggregate]_vars

InvestorsIn(list) == {list[i].investor_name : i \in 1..Len(list)}

\* The latest filing_date string among the input holdings of one investor.
LatestFiling(name, date) ==
    /\ \E i \in 1..Len(holdings) :
          holdings[i].investor_name = name /\ holdings[i].filing_date = date
    /\ \A i \in 1..Len(holdings) :
          holdings[i].investor_name = name => ~StrGt(holdings[i].filing_date, date)

\* C6: calculate_stats and generate_cluster_data keep exactly one record per
\* distinct investor_name, an input record of that investor with the maximum
\* filing_date string.
C6_OneLatestRecordPerInvestor ==
    pc = "aggregated" =>
        LET kept == stats[1].holdings_by_investor
        IN  /\ InvestorsIn(kept) = InvestorsIn(holdings)
            /\ Len(kept) = Cardinality(InvestorsIn(holdings))
            /\ \A k \in 1..Len(kept) :
                  /\ \E i \in 1..Len(holdings) : holdings[i] = kept[k]
                  /\ LatestFiling(kept[k].investor_name, kept[k].filing_date)
            /\ {cluster[k].name : k \in 1..Len(cluster)} = InvestorsIn(holdings)
            /\ Len(cluster) = Cardinality(InvestorsIn(holdings))
            /\ \A k \in 1..Len(cluster) :
                  /\ \E i \in 1..Len(holdings) : ClusterEntry(holdings[i]) = cluster[k]
                  /\ LatestFiling(cluster[k].name, cluster[k].filing_date)

\* Vanguard Group filed on 2024-09-30 and then, later in the list, on 2024-06-30.
C6_Witness ==
    /\ pc = "aggregated"
    /\ Len(holdings) = 3
    /\ holdings[1].investor_name = "Vanguard Group" /\ holdings[1].filing_date = D_2024_09_30
    /\ holdings[2].investor_name = "BlackRock"
    /\ holdings[3].investor_name = "Vanguard Group" /\ holdings[3].filing_date = D_2024_06_30
    /\ Len(stats[1].holdings_by_investor) = 2
    /\ \E k \in 1..2 : stats[1].holdings_by_investor[k] = holdings[1]

(***************************************************************************)
(* download_and_parse_13f.  The documents page is the list of its anchors  *)
(* (soup.find_all('a')) in page order, each with its href and its text.    *)
(* A request either raises (timeout, raise_for_status) or gives a body; an *)
(* .xml body is what ET.fromstring makes of it, a .txt body its lines.     *)
(***************************************************************************)
UpperIndex == [c \in {UpperCase[k] : k \in 1..26} |-> CHOOSE k \in 1..26 : UpperCase[k] = c]

\* str.lower()
Lower(s) ==
    [i \in 1..Len(s) |->
        IF s[i] \in DOMAIN UpperIndex THEN LowerCase[UpperIndex[s[i]]] ELSE s[i]]

\* str.endswith(suffix)
EndsWith(s, suffix) ==
    Len(s) >= Len(suffix) /\ SubSeq(s, Len(s) - Len(suffix) + 1, Len(s)) = suffix

DotXml == <<".", "x", "m", "l">>

DotTxt == <<".", "t", "x", "t">>

\* ['information', 'infotable', 'table']
InfoKeywords ==
    {<<"i", "n", "f", "o", "r", "m", "a", "t", "i", "o", "n">>,
     <<"i", "n", "f", "o", "t", "a", "b", "l", "e">>,
     <<"t", "a", "b", "l", "e">>}

\* any(kw in text for kw in [...]) with text = link.get_text().lower()
HasInfoKeyword(link) == \E kw \in InfoKeywords : Contains(Lower(link.text), kw)

\* Mutant: strategy 1 takes any .xml link, whatever its anchor text.
StrategyMatches_NoKeyword(s, link) ==
    CASE s = 1 -> Contains(link.href, DotXml)
      [] s = 2 -> Contains(link.href, DotXml)
      [] s = 3 -> EndsWith(link.href, DotTxt)

\* The condition under which the loop of strategy s requests a link.
StrategyMatches(s, link) ==
    CASE s = 1 -> Contains(link.href, DotXml) /\ HasInfoKeyword(link)
      [] s = 2 -> Contains(link.href, DotXml)
      [] s = 3 -> EndsWith(link.href, DotTxt)

LastStrategy == 3

\* The candidates of the three loops, in the order the code reaches them:
\* <<strategy, index of the link on the page>>.
RECURSIVE CandidatesFrom(_, _, _)
CandidatesFrom(links, s, i) ==
    IF s > LastStrategy THEN <<>>
    ELSE IF i > Len(links) THEN CandidatesFrom(links, s + 1, 1)
    ELSE (IF StrategyMatches(s, links[i]) THEN <<<<s, i>>>> ELSE <<>>)
           \o CandidatesFrom(links, s, i + 1)

\* What the parser of strategy s makes of a body.
ParseBody(s, body) ==
    IF s = LastStrategy THEN parse_13f_text_strict(body.lines)
    ELSE parse_13f_xml_robust(body.xml)

L_InfoTable ==
    [href |-> <<"/", "i", ".", "x", "m", "l">>,
     text |-> <<"I", "n", "f", "o", "r", "m", "a", "t", "i", "o", "n", " ", "T", "a", "b", "l", "e">>]

L_PrimaryDoc ==
    [href |-> <<"/", "p", ".", "x", "m", "l">>, text |-> <<"p", ".", "x", "m", "l">>]

L_Submission ==
    [href |-> <<"/", "f", ".", "t", "x", "t">>, text |-> <<"t", "a", "b", "l", "e", "s">>]

L_Index ==
    [href |-> <<"/", "x", ".", "h", "t", "m">>, text |-> <<"I", "N", "F", "O", "T", "A", "B", "L", "E">>]

LinkKinds == {L_InfoTable, L_PrimaryDoc, L_Submission, L_Index}

MaxLinks == 3

Manifests == SeqsUpTo(LinkKinds, MaxLinks)

\* An information table with a Workday row that validates.
B_XmlHolding ==
    [xml |-> [wellFormed |-> TRUE,
              nodes |-> <<Node("informationTable", Blank, 0)>>
                          \o InfoRow([layout |-> "form", cusip |-> WDAY_CUSIP,
                                      shares |-> <<"1", "0", "0", "0", "0", "0", "0">>,
                                      value |-> <<"2", "5", "0", "0", "0", "0">>])],
     lines |-> <<>>]

\* A document without a Workday row.
B_XmlOther ==
    [xml |-> [wellFormed |-> TRUE,
              nodes |-> <<Node("informationTable", Blank, 0)>>
                          \o InfoRow([layout |-> "form", cusip |-> OTHER_CUSIP,
                                      shares |-> <<"1", "0", "0", "0", "0", "0", "0">>,
                                      value |-> <<"2", "5", "0", "0", "0", "0">>])],
     lines |-> <<>>]

\* A text submission with a Workday line in the price band.
B_TextHolding ==
    [xml |-> NoXml,
     lines |-> <<Words(<<<<"W", "O", "R", "K", "D", "A", "Y">>, WDAY_CUSIP>>),
                 Words(<<N_1_000_000, N_250_000_000>>)>>]

\* A text submission whose Workday line is out of the price band.
B_TextOther ==
    [xml |-> NoXml,
     lines |-> <<Words(<<<<"W", "O", "R", "K", "D", "A", "Y">>, WDAY_CUSIP>>),
                 Words(<<N_1_000_000, N_500_000_000>>)>>]

\* An information table whose Workday row reports exactly 100000 shares.
B_XmlAtFloor ==
    [xml |-> [wellFormed |-> TRUE,
              nodes |-> <<Node("informationTable", Blank, 0)>>
                          \o InfoRow([layout |-> "form", cusip |-> WDAY_CUSIP,
                                      shares |-> <<"1", "0", "0", "0", "0", "0">>,
                                      value |-> <<"2", "5", "0", "0", "0">>])],
     lines |-> <<>>]

\* A text submission whose Workday line reports exactly 100,000 shares.
B_TextAtFloor ==
    [xml |-> NoXml,
     lines |-> <<Words(<<<<"W", "O", "R", "K", "D", "A", "Y">>, WDAY_CUSIP>>),
                 Words(<<<<"1", "0", "0", ",", "0", "0", "0">>,
                         N_250_000_000>>)>>]

\* The bodies a request of strategy s may be answered with.
Bodies(s) == IF s = LastStrategy THEN {B_TextHolding, B_TextOther, B_TextAtFloor}
             ELSE {B_XmlHolding, B_XmlOther, B_XmlAtFloor, B_TextOther}

\* History: one entry per document request of the current resolution.
Fetched(s, i, how) == [strategy |-> s, link |-> i, outcome |-> how]

\* Every request notes whether a sleep separated it from the request before.
Request ==
    /\ back_to_back' = (back_to_back \/ last_io = "request")
    /\ last_io' = "request"

Sleep == last_io' = "sleep" /\ UNCHANGED back_to_back

\* lines 229-230: the request of the documents page raises; "except: pass", None
ManifestFails ==
    /\ failed_filings' = failed_filings \cup {filing_idx}
    /\ pc = "resolve"
    /\ Request
    /\ result' = None
    /\ pc' = "resolved"
    /\ UNCHANGED <<soup, strategy, link_idx, fetched>>

\* lines 229-231: the documents page arrives
ManifestArrives(manifests) ==
    /\ UNCHANGED failed_filings
    /\ pc = "resolve"
    /\ Request
    /\ \E links \in manifests : soup' = Some(links)
    /\ strategy' = 1
    /\ link_idx' = 1
    /\ pc' = "scan"
    /\ UNCHANGED <<result, fetched>>

\* The loops run on to the next link that matches and sleep before requesting it.
SleepBeforeDocument ==
    /\ UNCHANGED failed_filings
    /\ pc = "scan"
    /\ CandidatesFrom(soup[1], strategy, link_idx) # <<>>
    /\ strategy' = CandidatesFrom(soup[1], strategy, link_idx)[1][1]
    /\ link_idx' = CandidatesFrom(soup[1], strategy, link_idx)[1][2]
    /\ Sleep
    /\ pc' = "fetch_document"
    /\ UNCHANGED <<soup, result, fetched>>

\* No link is left in any loop: "return None"
CandidatesExhausted ==
    /\ UNCHANGED failed_filings
    /\ pc = "scan"
    /\ CandidatesFrom(soup[1], strategy, link_idx) = <<>>
    /\ result' = None
    /\ pc' = "resolved"
    /\ UNCHANGED <<soup, strategy, link_idx, fetched, last_io, back_to_back>>

\* The document request raises: the exception leaves every loop, "return None"
DocumentFails ==
    /\ failed_filings' = failed_filings \cup {filing_idx}
    /\ pc = "fetch_document"
    /\ Request
    /\ fetched' = Append(fetched, Fetched(strategy, link_idx, "failed"))
    /\ result' = None
    /\ pc' = "resolved"
    /\ UNCHANGED <<soup, strategy, link_idx>>

\* Mutant: a holding does not end the resolution ("break" for "return"): the
\* loops go on with the next link.
DocumentArrives_KeepsGoing ==
    /\ UNCHANGED failed_filings
    /\ pc = "fetch_document"
    /\ Request
    /\ \E body \in Bodies(strategy) :
          LET parsed == ParseBody(strategy, body)
          IN  /\ result' = parsed
              /\ fetched' = Append(fetched,
                                   Fetched(strategy, link_idx,
                                           IF parsed # None THEN "holding" ELSE "nothing"))
    /\ pc' = "scan"
    /\ link_idx' = link_idx + 1
    /\ UNCHANGED <<soup, strategy>>

\* The document arrives and is parsed: "if result: return result", else the
\* loop goes on with the next link.
DocumentArrives ==
    /\ UNCHANGED failed_filings
    /\ pc = "fetch_document"
    /\ Request
    /\ \E body \in Bodies(strategy) :
          LET parsed == ParseBody(strategy, body)
          IN  IF parsed # None
              THEN /\ result' = parsed
                   /\ fetched' = Append(fetched, Fetched(strategy, link_idx, "holding"))
                   /\ pc' = "resolved"
                   /\ UNCHANGED link_idx
              ELSE /\ result' = None
                   /\ fetched' = Append(fetched, Fetched(strategy, link_idx, "nothing"))
                   /\ pc' = "scan"
                   /\ link_idx' = link_idx + 1
    /\ UNCHANGED <<soup, strategy>>

\* What a step of the resolution leaves alone.
NotResolve ==
    <<variant, vForm4, vSummary, vLocator, vXml13F, vText13F, vAggregate,
      investor_idx, filing_idx, outcome, store>>

(***************************************************************************)
(* Specification of one resolution: download_and_parse_13f is called on a  *)
(* documents page drawn from Manifests.                                    *)
(***************************************************************************)
InitResolve13F ==
    /\ pc = "resolve"
    /\ variant = "13f"
    /\ IdleExcept({})

NextResolve13F ==
    \/ ManifestFails /\ UNCHANGED NotResolve
    \/ ManifestArrives(Manifests) /\ UNCHANGED NotResolve
    \/ SleepBeforeDocument /\ UNCHANGED NotResolve
    \/ CandidatesExhausted /\ UNCHANGED NotResolve
    \/ DocumentFails /\ UNCHANGED NotResolve
    \/ DocumentArrives /\ UNCHANGED NotResolve

SpecResolve13F == InitResolve13F /\ [][NextResolve13F]_vars

\* The links of the page the claim speaks of.
IsInfoTableLink(link) ==
    /\ Contains(link.href, DotXml)
    /\ \E kw \in InfoKeywords : Contains(Lower(link.text), kw)

IsGenericXmlLink(link) == Contains(link.href, DotXml) /\ ~IsInfoTableLink(link)

\* C9: when the documents page offers both an information-table .xml link and a
\* generic .xml link, the first document requested is an information-table one,
\* and a generic link is requested only after every information-table link was
\* requested and its document yielded no holding.
C9_InfoTableBeforeGenericXml ==
    (soup # None
       /\ (\E i \in 1..Len(soup[1]) : IsInfoTableLink(soup[1][i]))
       /\ (\E i \in 1..Len(soup[1]) : IsGenericXmlLink(soup[1][i]))) =>
        /\ fetched # <<>> =>
              /\ fetched[1].strategy = 1
              /\ IsInfoTableLink(soup[1][fetched[1].link])
        /\ \A k \in 1..Len(fetched) :
              IsGenericXmlLink(soup[1][fetched[k].link]) =>
                  \A i \in 1..Len(soup[1]) :
                      IsInfoTableLink(soup[1][i]) =>
                          \E j \in 1..(k - 1) :
                              /\ fetched[j].link = i
                              /\ fetched[j].strategy = 1
                              /\ fetched[j].outcome = "nothing"

\* The generic link stands first on the page; the information table, second on
\* the page, was requested first and held no Workday row, and the generic
\* document was requested after it.
C9_Witness ==
    /\ pc = "resolved"
    /\ soup = Some(<<L_PrimaryDoc, L_InfoTable>>)
    /\ Len(fetched) = 2
    /\ fetched[1] = Fetched(1, 2, "nothing")
    /\ fetched[2].strategy = 2 /\ fetched[2].link = 1

(***************************************************************************)
(* The Form 4 runs: POST /transactions/refresh (variant "server") and the  *)
(* static generator's main() (variant "static").  time.sleep is a step of  *)
(* its own wherever a request may follow it in the same function; a sleep  *)
(* that ends a loop body is taken together with the body.                  *)
(***************************************************************************)
ServerFilingLimit == 15

NUM_FILINGS_TO_FETCH == 50

\* filings[:15] / filings[:NUM_FILINGS_TO_FETCH]
FilingLimit(v) == IF v = "server" THEN ServerFilingLimit ELSE NUM_FILINGS_TO_FETCH

Form4Row(label, date, k) == [ncols |-> 5, label |-> label, date |-> date, link |-> Some(k)]

\* The index pages a run is answered with: no table, or a table of three rows
\* of which the first and the third are Form 4 filings.
RunIndexPages ==
    {NoPage,
     [table |-> TRUE,
      rows |-> <<Form4Row(<<"4">>, D_2024_09_30, 1),
                 Form4Row(<<"3">>, D_2024_09_30, 2),
                 Form4Row(<<"4">>, D_2024_06_30 \o <<" ">>, 3)>>]}

XslMarker == <<"x", "s", "l", "F", "3", "4", "5", "X">>

L_Form4Styled ==
    [href |-> <<"/">> \o XslMarker \o <<"/", "d", ".", "x", "m", "l">>,
     text |-> <<"d", ".", "x", "m", "l">>]

L_Form4Raw == [href |-> <<"/", "d", ".", "x", "m", "l">>, text |-> <<"d", ".", "x", "m", "l">>]

RunForm4Manifests == {<<L_Index>>, <<L_Form4Styled, L_Form4Raw, L_PrimaryDoc>>}

\* '.xml' in href and 'xslF345X' not in href
IsForm4Link(link) == Contains(link.href, DotXml) /\ ~Contains(link.href, XslMarker)

\* The first link of the page the loop requests, 0 if there is none.
Form4DocLink(links) ==
    IF \E i \in 1..Len(links) : IsForm4Link(links[i])
    THEN Min({i \in 1..Len(links) : IsForm4Link(links[i])})
    ELSE 0

F4_Sale ==
    [transactionDate |-> Elem(D_2024_01_15),
     transactionShares |-> Elem(<<"1", "0", "0">>),
     transactionPricePerShare |-> Elem(<<"1", "0">>),
     transactionAcquiredDisposedCode |-> Elem(<<"D">>)]

\* A malformed body, a filing with one sale, and a filing whose transaction
\* has an empty date element.
RunForm4Docs ==
    {NoDoc,
     [wellFormed |-> TRUE,
      reportingOwner |-> Some([rptOwnerName |-> Elem(N_Bhusri), officerTitle |-> Elem(T_CEO)]),
      nonDerivativeTransaction |-> <<F4_Sale>>],
     [wellFormed |-> TRUE,
      reportingOwner |-> Some([rptOwnerName |-> Elem(N_Fernandez), officerTitle |-> Absent]),
      nonDerivativeTransaction |-> <<[F4_Sale EXCEPT !.transactionDate = EmptyElem]>>]}

\* What db.transactions holds before the request.
PriorStores ==
    {<<>>, parse_form4_xml([wellFormed |-> TRUE,
                            reportingOwner |-> Some([rptOwnerName |-> Elem(N_Bhusri),
                                                     officerTitle |-> Absent]),
                            nonDerivativeTransaction |-> <<F4_Sale>>], D_2024_03_01)}

\* Building an InsiderTransaction from the record raises a validation error: executive_name and
\* transaction_date are declared str, and None is not one.
ValidationRaises(trans) == trans.executive_name = None \/ trans.transaction_date = None

\* list.sort on x.get('transaction_date', '') raises TypeError when a None key
\* is compared; generate_executives_summary compares each record's date.
StaticOutputRaises(list) == \E i \in 1..Len(list) : list[i].transaction_date = None

NotRunForm4 ==
    <<variant, xml_content, vXml13F, vText13F, vAggregate, investor_idx, strategy, result>>

\* fetch_sec_filings: the request raises.  The server's helper returns None and
\* the handler answers 500; the generator's helper lets the exception out of main().
IndexFails ==
    /\ UNCHANGED failed_filings
    /\ pc = "index"
    /\ Request
    /\ outcome' = IF variant = "server" THEN "http_500" ELSE "raised"
    /\ pc' = "done"
    /\ UNCHANGED <<html_content, filings, filing_idx, soup, link_idx, transactions,
                   all_transactions, executives, fetched, store, NotRunForm4>>

\* fetch_sec_filings returns the page; parse_sec_filings_list; the loop starts.
IndexArrives ==
    /\ UNCHANGED failed_filings
    /\ pc = "index"
    /\ Request
    /\ \E page \in RunIndexPages :
          /\ html_content' = page
          /\ filings' = parse_sec_filings_list(page, RowLimit(variant))
    /\ filing_idx' = 1
    /\ pc' = "filing"
    /\ UNCHANGED <<soup, link_idx, transactions, all_transactions, executives, fetched,
                   outcome, store, NotRunForm4>>

MoreFilings == filing_idx <= Len(Take(filings, FilingLimit(variant)))

\* fetch_and_parse_form4: the request of the documents page raises; "return []"
Form4ManifestFails ==
    /\ failed_filings' = failed_filings \cup {filing_idx}
    /\ pc = "filing"
    /\ MoreFilings
    /\ Request
    /\ transactions' = <<>>
    /\ pc' = "filing_done"
    /\ UNCHANGED <<html_content, filings, filing_idx, soup, link_idx, all_transactions,
                   executives, fetched, outcome, store, NotRunForm4>>

\* The documents page arrives; the loop runs to the first Form 4 link, or ends
\* without one ("return []").
Form4ManifestArrives ==
    /\ UNCHANGED failed_filings
    /\ pc = "filing"
    /\ MoreFilings
    /\ Request
    /\ \E links \in RunForm4Manifests :
          /\ soup' = Some(links)
          /\ link_idx' = Form4DocLink(links)
          /\ pc' = IF Form4DocLink(links) = 0 THEN "filing_done" ELSE "form4_sleep"
    /\ transactions' = <<>>
    /\ UNCHANGED <<html_content, filings, filing_idx, all_transactions, executives,
                   fetched, outcome, store, NotRunForm4>>

\* time.sleep(0.2) / time.sleep(0.3) before the document request
Form4SleepBeforeDocument ==
    /\ UNCHANGED failed_filings
    /\ pc = "form4_sleep"
    /\ Sleep
    /\ pc' = "form4_document"
    /\ UNCHANGED <<html_content, filings, filing_idx, soup, link_idx, transactions,
                   all_transactions, executives, fetched, outcome, store, NotRunForm4>>

\* Mutant: the exception of the document request is not caught and ends the run.
Form4DocumentFails_Aborts ==
    /\ pc = "form4_document"
    /\ Request
    /\ failed_filings' = failed_filings \cup {filing_idx}
    /\ fetched' = Append(fetched, Fetched(1, link_idx, "failed"))
    /\ transactions' = <<>>
    /\ outcome' = "raised"
    /\ pc' = "done"
    /\ UNCHANGED <<html_content, filings, filing_idx, soup, link_idx, all_transactions,
                   executives, store, NotRunForm4>>

\* The document request raises; "return []"
Form4DocumentFails ==
    /\ failed_filings' = failed_filings \cup {filing_idx}
    /\ pc = "form4_document"
    /\ Request
    /\ fetched' = Append(fetched, Fetched(1, link_idx, "failed"))
    /\ transactions' = <<>>
    /\ pc' = "filing_done"
    /\ UNCHANGED <<html_content, filings, filing_idx, soup, link_idx, all_transactions,
                   executives, outcome, store, NotRunForm4>>

\* "return parse_form4_xml(xml_response.text, filing_date)"
Form4DocumentArrives ==
    /\ UNCHANGED failed_filings
    /\ pc = "form4_document"
    /\ Request
    /\ \E doc \in RunForm4Docs :
          LET date == filings[filing_idx].filing_date
              parsed == IF variant = "server" THEN parse_form4_xml(doc, date)
                        ELSE parse_form4_xml_static(doc, date)
          IN  /\ transactions' = parsed
              /\ fetched' = Append(fetched,
                                   Fetched(1, link_idx,
                                           IF parsed = <<>> THEN "nothing" ELSE "holding"))
    /\ pc' = "filing_done"
    /\ UNCHANGED <<html_content, filings, filing_idx, soup, link_idx, all_transactions,
                   executives, outcome, store, NotRunForm4>>

\* all_transactions.extend(transactions); time.sleep(0.3)
FilingDone ==
    /\ UNCHANGED failed_filings
    /\ pc = "filing_done"
    /\ all_transactions' = all_transactions \o transactions
    /\ Sleep
    /\ filing_idx' = filing_idx + 1
    /\ soup' = None
    /\ link_idx' = 1
    /\ fetched' = <<>>
    /\ transactions' = <<>>
    /\ pc' = "filing"
    /\ UNCHANGED <<html_content, filings, executives, outcome, store, NotRunForm4>>

\* await db.transactions.delete_many({})
DeleteMany ==
    /\ UNCHANGED failed_filings
    /\ pc = "filing"
    /\ ~MoreFilings
    /\ variant = "server"
    /\ store' = <<>>
    /\ pc' = "insert"
    /\ UNCHANGED <<html_content, filings, filing_idx, soup, link_idx, transactions,
                   all_transactions, executives, fetched, last_io, back_to_back, outcome,
                   NotRunForm4>>

\* "if all_transactions:" the records are validated and inserted; a validation
\* error is answered with 500 and nothing is inserted.
InsertMany ==
    /\ UNCHANGED failed_filings
    /\ pc = "insert"
    /\ IF \E i \in 1..Len(all_transactions) : ValidationRaises(all_transactions[i])
       THEN outcome' = "http_500" /\ UNCHANGED store
       ELSE outcome' = "success" /\ store' = all_transactions
    /\ pc' = "done"
    /\ UNCHANGED <<html_content, filings, filing_idx, soup, link_idx, transactions,
                   all_transactions, executives, fetched, last_io, back_to_back,
                   NotRunForm4>>

\* main(): the sort by transaction date and the files written from the list
WriteStaticFiles ==
    /\ UNCHANGED failed_filings
    /\ pc = "filing"
    /\ ~MoreFilings
    /\ variant = "static"
    /\ IF StaticOutputRaises(all_transactions)
       THEN outcome' = "raised" /\ UNCHANGED <<all_transactions, executives>>
       ELSE /\ outcome' = "success"
            /\ all_transactions' = SortDesc(all_transactions, "transaction_date")
            /\ executives' =
                   generate_executives_summary(SortDesc(all_transactions, "transaction_date"))
    /\ pc' = "done"
    /\ UNCHANGED <<html_content, filings, filing_idx, soup, link_idx, transactions,
                   fetched, last_io, back_to_back, store, NotRunForm4>>

InitRunForm4 ==
    /\ pc = "index"
    /\ variant \in Variants
    /\ IdleExcept({"Run"})
    /\ investor_idx = 1
    /\ filing_idx = 1
    /\ soup = None
    /\ strategy = 1
    /\ link_idx = 1
    /\ result = None
    /\ fetched = <<>>
    /\ last_io = "none"
    /\ back_to_back = FALSE
    /\ outcome = "running"
    /\ store \in IF variant = "server" THEN PriorStores ELSE {<<>>}
    /\ failed_filings = {}

NextRunForm4 ==
    \/ IndexFails
    \/ IndexArrives
    \/ Form4ManifestFails
    \/ Form4ManifestArrives
    \/ Form4SleepBeforeDocument
    \/ Form4DocumentFails
    \/ Form4DocumentArrives
    \/ FilingDone
    \/ DeleteMany
    \/ InsertMany
    \/ WriteStaticFiles

(***************************************************************************)
(* The 13F run: fetch_latest_13f_filings, fetch_all_holdings, and the      *)
(* aggregation of main().                                                  *)
(***************************************************************************)
MAJOR_INVESTORS ==
    <<[cik |-> "0000102909", name |-> "Vanguard Group"],
      [cik |-> "0001364742", name |-> "BlackRock"],
      [cik |-> "0000093751", name |-> "State Street"],
      [cik |-> "0001166559", name |-> "Fidelity"]>>

\* The run of the model asks the first RosterSize investors.
RosterSize == 2

\* main(): fetch_latest_13f_filings(max_per_investor=2)
MaxPerInvestor == 2

L_13F_HR == <<"1", "3", "F", "-", "H", "R">>

\* An index page of two filings, and one of three rows whose second row has no
\* documents link.
Run13FPages ==
    {[table |-> TRUE,
      rows |-> <<Form4Row(L_13F_HR, D_2024_06_30, 1),
                 Form4Row(L_13F_HR \o <<"/", "A">>, D_2024_09_30 \o <<" ">>, 2)>>],
     [table |-> TRUE,
      rows |-> <<Form4Row(L_13F_HR, D_2024_09_30, 1),
                 [Form4Row(L_13F_HR, D_2024_06_30, 2) EXCEPT !.link = None],
                 Form4Row(L_13F_HR, D_2024_03_01, 3)>>]}

Run13FManifests == {<<>>, <<L_Submission>>, <<L_PrimaryDoc, L_InfoTable>>}

\* The loop over rows[:max_per_investor]: len(cols) >= 4, and then documents_link
RECURSIVE FilingRefs(_, _)
FilingRefs(rows, investor) ==
    IF rows = <<>> THEN <<>>
    ELSE (IF Head(rows).ncols >= 4 /\ Head(rows).link # None
          THEN <<[cik |-> investor.cik,
                  name |-> investor.name,
                  filing_date |-> Strip(Head(rows).date),
                  documents_url |-> <<SecOrigin, Head(rows).link[1]>>]>>
          ELSE <<>>)
           \o FilingRefs(Tail(rows), investor)

MoreInvestors == investor_idx <= RosterSize

NotLocate13F ==
    <<variant, vForm4, vSummary, html_content, vXml13F, vText13F, vAggregate, soup,
      strategy, link_idx, result, fetched, store>>

\* The index request raises: "except: continue", with no sleep
LocatorFails ==
    /\ UNCHANGED failed_filings
    /\ pc = "locate"
    /\ MoreInvestors
    /\ Request
    /\ investor_idx' = investor_idx + 1
    /\ UNCHANGED <<pc, filings, filing_idx, outcome, NotLocate13F>>

\* The page has no table of class tableFile2: "continue", with no sleep
LocatorNoTable ==
    /\ UNCHANGED failed_filings
    /\ pc = "locate"
    /\ MoreInvestors
    /\ Request
    /\ investor_idx' = investor_idx + 1
    /\ UNCHANGED <<pc, filings, filing_idx, outcome, NotLocate13F>>

\* The page has the table: its first rows are appended, then time.sleep(0.3)
LocatorArrives ==
    /\ UNCHANGED failed_filings
    /\ pc = "locate"
    /\ MoreInvestors
    /\ back_to_back' = (back_to_back \/ last_io = "request")
    /\ last_io' = "sleep"
    /\ \E page \in Run13FPages :
          filings' = filings \o FilingRefs(Take(page.rows, MaxPerInvestor),
                                           MAJOR_INVESTORS[investor_idx])
    /\ investor_idx' = investor_idx + 1
    /\ UNCHANGED <<pc, filing_idx, outcome, NotLocate13F>>

\* main(): "if not filings: return", else fetch_all_holdings starts
LocatorDone ==
    /\ UNCHANGED failed_filings
    /\ pc = "locate"
    /\ ~MoreInvestors
    /\ IF filings = <<>>
       THEN pc' = "done" /\ outcome' = "no_filings"
       ELSE pc' = "resolve" /\ UNCHANGED outcome
    /\ filing_idx' = 1
    /\ UNCHANGED <<filings, investor_idx, last_io, back_to_back, NotLocate13F>>

\* fetch_all_holdings: the result, if any, is appended with the filing's
\* investor and date; time.sleep(0.5); the next filing, or the aggregation.
HoldingDone ==
    /\ UNCHANGED failed_filings
    /\ pc = "resolved"
    /\ holdings' = IF result = None THEN holdings
                   ELSE Append(holdings,
                               [shares |-> result[1].shares,
                                value_dollars |-> result[1].value_dollars,
                                investor_name |-> filings[filing_idx].name,
                                cik |-> filings[filing_idx].cik,
                                filing_date |-> filings[filing_idx].filing_date])
    /\ Sleep
    /\ filing_idx' = filing_idx + 1
    /\ soup' = None
    /\ strategy' = 1
    /\ link_idx' = 1
    /\ result' = None
    /\ fetched' = <<>>
    /\ pc' = IF filing_idx < Len(filings) THEN "resolve" ELSE "aggregate"
    /\ UNCHANGED <<variant, vForm4, vSummary, vLocator, vXml13F, vText13F, stats, cluster,
                   investor_idx, outcome, store>>

InitRun13F ==
    /\ pc = "locate"
    /\ variant = "13f"
    /\ IdleExcept({})

NextRun13F ==
    \/ LocatorFails
    \/ LocatorNoTable
    \/ LocatorArrives
    \/ LocatorDone
    \/ ManifestFails /\ UNCHANGED NotResolve
    \/ ManifestArrives(Run13FManifests) /\ UNCHANGED NotResolve
    \/ SleepBeforeDocument /\ UNCHANGED NotResolve
    \/ CandidatesExhausted /\ UNCHANGED NotResolve
    \/ DocumentFails /\ UNCHANGED NotResolve
    \/ DocumentArrives /\ UNCHANGED NotResolve
    \/ HoldingDone
    \/ Aggregate
    \/ NoHoldings

(***************************************************************************)
(* Specification of the pipeline runs: one of the three programs runs once. *)
(***************************************************************************)
InitPipelines == InitRunForm4 \/ InitRun13F

NextPipelines == NextRunForm4 \/ NextRun13F

SpecPipelines == InitPipelines /\ [][NextPipelines]_vars

\* C10: in every run, a sleep separates any two consecutive requests: no request
\* is issued while the last request or sleep of the run was a request.
C10_SleepBetweenRequests == ~back_to_back

\* C11: when the request of the filings index fails, the Form 4 run (refresh
\* endpoint and static generator) ends with an explicit result and raises nothing
\* to its caller: neither an exception out of main() nor an HTTPException.
C11_IndexFailureGivesEmptyResult ==
    [][(pc = "index" /\ pc' = "done") => outcome' \notin {"raised", "http_500"}]_vars

\* The records a run holds of the filing at index i: they carry its filing date,
\* and a holding its investor too.
RecordsOfFiling(i) ==
    IF variant = "13f"
    THEN {k \in 1..Len(holdings) :
             /\ holdings[k].investor_name = filings[i].name
             /\ holdings[k].filing_date = filings[i].filing_date}
    ELSE {k \in 1..Len(all_transactions) :
             all_transactions[k].filing_date = filings[i].filing_date}

\* The filings the loop of the run goes over.
FilingsOfRun ==
    IF variant = "13f" THEN filings ELSE Take(filings, FilingLimit(variant))

\* C12: a filing one of whose requests (documents page or document) raised
\* contributes no record, and the run still goes through every filing of its
\* list: it reaches its end only with the loop past the last filing.
C12_FetchFailureSkipsOnlyThatFiling ==
    /\ \A i \in failed_filings : RecordsOfFiling(i) = {}
    /\ (pc = "filing_done" /\ filing_idx \in failed_filings) => transactions = <<>>
    /\ (pc = "resolved" /\ filing_idx \in failed_filings) => result = None
    /\ (pc \in {"insert", "done", "aggregate", "aggregated", "no_holdings"}
          /\ failed_filings # {}) =>
           filing_idx = Len(FilingsOfRun) + 1

\* The documents page of the first filing could not be fetched; the second filing
\* was processed after it and its record is in the store.
C12_Witness ==
    /\ pc = "done"
    /\ variant = "server"
    /\ failed_filings = {1}
    /\ outcome = "success"
    /\ Len(store) = 1
    /\ store[1].filing_date = filings[2].filing_date

\* A transaction with its date, shares and price elements present and with
\* shares and price texts that are numbers.
IsCompleteTrans(trans) ==
    /\ trans.transactionDate # Absent
    /\ trans.transactionShares # Absent
    /\ trans.transactionPricePerShare # Absent
    /\ TextOf(trans.transactionShares) # None
    /\ TextOf(trans.transactionPricePerShare) # None
    /\ IsDecimal(Strip(TextOf(trans.transactionShares)[1]))
    /\ IsDecimal(Strip(TextOf(trans.transactionPricePerShare)[1]))

CompleteTransOf(doc) ==
    {i \in 1..Len(doc.nonDerivativeTransaction) :
        IsCompleteTrans(doc.nonDerivativeTransaction[i])}

\* C13: in a document with a named reporting owner, parse_form4_xml returns one
\* record per complete transaction and none for the others, in document order:
\* the k-th record is that of the k-th complete transaction.
C13_DefectiveTransactionsSkippedInOrder ==
    (pc = "parsed_form4" /\ xml_content.wellFormed
        /\ xml_content.reportingOwner # Absent
        /\ xml_content.reportingOwner[1].rptOwnerName # Absent) =>
        LET complete == CompleteTransOf(xml_content)
        IN  /\ Len(transactions) = Cardinality(complete)
            /\ \A i \in complete :
                  LET k == Cardinality({j \in complete : j <= i})
                      trans == xml_content.nonDerivativeTransaction[i]
                  IN  /\ transactions[k].transaction_date = TextOf(trans.transactionDate)
                      /\ transactions[k].shares = FloatOf(TextOf(trans.transactionShares))
                      /\ transactions[k].price_per_share
                            = FloatOf(TextOf(trans.transactionPricePerShare))

\* The first transaction has shares "N/A", the second is complete: one record,
\* that of the second.
C13_Witness ==
    /\ pc = "parsed_form4"
    /\ Len(xml_content.nonDerivativeTransaction) = 2
    /\ xml_content.nonDerivativeTransaction[1].transactionShares = Elem(<<"N", "/", "A">>)
    /\ IsCompleteTrans(xml_content.nonDerivativeTransaction[2])
    /\ Len(transactions) = 1
    /\ transactions[1].transaction_date
          = TextOf(xml_content.nonDerivativeTransaction[2].transactionDate)
    /\ transactions[1].transaction_date # Some(D_2024_01_15)

\* The last document request of the current resolution gave a document that
\* parsed to nothing.
LastDocumentEmpty == fetched # <<>> /\ fetched[Len(fetched)].outcome = "nothing"

\* C14: in both resolvers, a resolution that ends after a document that was
\* retrieved and parsed to nothing has no untried candidate link left on the
\* documents page.
C14_EmptyDocumentAdvancesToNextCandidate ==
    /\ (pc = "filing_done" /\ LastDocumentEmpty) =>
           \A i \in (link_idx + 1)..Len(soup[1]) : ~IsForm4Link(soup[1][i])
    /\ (pc = "resolved" /\ LastDocumentEmpty) =>
           CandidatesFrom(soup[1], strategy, link_idx) = <<>>

\* The requests of the current resolution that went to the text parser: those of
\* strategy 3, which are those for a link ending in .txt.
TextRequests ==
    {k \in 1..Len(fetched) :
        fetched[k].strategy = 3 \/ EndsWith(soup[1][fetched[k].link].href, DotTxt)}

\* C15: a .txt document is requested (and the text parser called) only after every
\* .xml link of the page was requested, parsed by the structured parser and gave
\* no holding; after an .xml document gave a holding no .txt document is requested.
C15_TextOnlyAfterEveryXmlGaveNothing ==
    soup # None =>
        \A k \in TextRequests :
            /\ fetched[k].strategy = 3
            /\ EndsWith(soup[1][fetched[k].link].href, DotTxt)
            /\ \A j \in 1..(k - 1) : fetched[j].outcome = "nothing"
            /\ \A i \in 1..Len(soup[1]) :
                  Contains(soup[1][i].href, DotXml) =>
                      \E j \in 1..(k - 1) :
                          /\ fetched[j].link = i
                          /\ fetched[j].strategy \in {1, 2}
                          /\ fetched[j].outcome = "nothing"

\* Both .xml documents held no Workday row, in strategy 1 and in strategy 2; the
\* text submission, requested fourth, gave the holding.
C15_Witness ==
    /\ pc = "resolved"
    /\ soup = Some(<<L_PrimaryDoc, L_InfoTable, L_Submission>>)
    /\ Len(fetched) = 4
    /\ fetched[4] = Fetched(3, 3, "holding")
    /\ result # None

\* The gate of the structured parser, applied to a pair of numbers: both are
\* truthy, shares is not 98138 and shares is above 100000.
PassesXmlGate(shares, value) ==
    /\ shares # 0
    /\ value # 0
    /\ shares # 98138
    /\ shares > 100000

\* C16: every pair parse_13f_xml_robust returns passes the parser's validation
\* gate again when the returned shares and value are fed to it.
C16_AcceptedPairPassesGateAgain ==
    (pc = "parsed_13f_xml" /\ xml_result # None) =>
        PassesXmlGate(xml_result[1].shares, xml_result[1].value_dollars)

\* A document with a row of 100000 shares, which the gate rejects, and a row of
\* 1000000 shares, which is returned and passes again.
C16_Witness ==
    /\ pc = "parsed_13f_xml"
    /\ xml_result = Some([shares |-> 1000000, value_dollars |-> 250000000])
    /\ \E i \in 1..Len(xml_text.nodes) :
          xml_text.nodes[i].text = Some(<<"1", "0", "0", "0", "0", "0">>)

\* The lists that hold the same holdings as list, in every order.
Reorderings(list) ==
    {[i \in 1..Len(list) |-> list[f[i]]] : f \in Permutations(1..Len(list))}

\* C17: the aggregated output does not depend on the order of the holdings: for
\* every reordering of the input, calculate_stats and generate_cluster_data return
\* what they return for the input.
C17_OutputIndependentOfOrder ==
    pc = "aggregated" =>
        \A other \in Reorderings(holdings) :
            /\ calculate_stats(other) = stats
            /\ generate_cluster_data(other) = cluster

\* The input records of one investor that carry its latest filing_date.
LatestRecordsOf(name) ==
    {i \in 1..Len(holdings) :
        /\ holdings[i].investor_name = name
        /\ LatestFiling(name, holdings[i].filing_date)}

\* What both functions keep for the investor.
KeptByStats(name) ==
    CHOOSE h \in Range(stats[1].holdings_by_investor) : h.investor_name = name

KeptByCluster(name) == CHOOSE c \in Range(cluster) : c.name = name

\* C18 as stated: of the holdings of one investor with equal (latest) filing_date
\* strings, the deduplication keeps the one seen last in input order.
C18_LastSeenWins ==
    pc = "aggregated" =>
        \A name \in InvestorsIn(holdings) :
            LET last == holdings[Max(LatestRecordsOf(name))]
            IN  KeptByStats(name) = last /\ KeptByCluster(name) = ClusterEntry(last)

\* C18 amended: of the holdings of one investor with equal (latest) filing_date
\* strings, the deduplication keeps the one seen first in input order.
C18_FirstSeenWins ==
    pc = "aggregated" =>
        \A name \in InvestorsIn(holdings) :
            LET first == holdings[Min(LatestRecordsOf(name))]
            IN  KeptByStats(name) = first /\ KeptByCluster(name) = ClusterEntry(first)

\* Two Vanguard records of 2024-09-30 with different share counts: the first is kept.
C18_Witness ==
    /\ pc = "aggregated"
    /\ Len(holdings) = 2
    /\ holdings[1].investor_name = "Vanguard Group"
    /\ holdings[2].investor_name = "Vanguard Group"
    /\ holdings[1].filing_date = D_2024_09_30 /\ holdings[2].filing_date = D_2024_09_30
    /\ holdings[1].shares = 1000000 /\ holdings[2].shares = 2000000
    /\ stats[1].holdings_by_investor = <<holdings[1]>>
    /\ cluster = <<ClusterEntry(holdings[1])>>

(***************************************************************************)
(* Specification of the selection of the filings a Form 4 run processes:   *)
(* parse_sec_filings_list on the index page, then the slice of the loop    *)
(* (filings[:15], filings[:NUM_FILINGS_TO_FETCH]).  The index pages have   *)
(* rows of other form types in front of the Form 4 rows.                   *)
(***************************************************************************)
MaxLead == 8

\* lead rows labelled "4/A" followed by count rows labelled "4"
LongIndexPage(lead, count) ==
    [table |-> TRUE,
     rows |-> [i \in 1..(lead + count) |->
                  Form4Row(IF i <= lead THEN <<"4", "/", "A">> ELSE <<"4">>,
                           D_2024_09_30, i)]]

LongIndexPages ==
    {LongIndexPage(lead, count) :
        lead \in (0..MaxLead) \cup {StaticRowLimit - NUM_FILINGS_TO_FETCH + 1},
        count \in {0, 1, ServerFilingLimit - 1, ServerFilingLimit, ServerFilingLimit + 1,
                   NUM_FILINGS_TO_FETCH, NUM_FILINGS_TO_FETCH + 1}}

InitSelectFilings ==
    /\ pc = "select"
    /\ variant \in Variants
    /\ html_content \in LongIndexPages
    /\ filings = <<>>
    /\ IdleExcept({"Locator"})

\* filings = parse_sec_filings_list(html_content); for filing in filings[:N]
SelectFilings ==
    /\ pc = "select"
    /\ filings' = Take(parse_sec_filings_list(html_content, RowLimit(variant)),
                       FilingLimit(variant))
    /\ pc' = "selected"
    /\ UNCHANGED <<variant, html_content, NotLocator>>

NextSelectFilings == SelectFilings

SpecSelectFilings == InitSelectFilings /\ [][NextSelectFilings]_vars

\* C19: when the index has at least N rows labelled "4" (N = 15 for the refresh
\* endpoint, 50 for the static generator), the run processes exactly the first N
\* of them, in row order, however many other rows stand before them.
C19_FilterThenTruncate ==
    (pc = "selected" /\ Cardinality(Type4Rows) >= FilingLimit(variant)) =>
        /\ Len(filings) = FilingLimit(variant)
        /\ \A k \in 1..Len(filings) :
              \E i \in Type4Rows :
                  /\ Cardinality({j \in Type4Rows : j <= i}) = k
                  /\ filings[k].documents_url = <<SecOrigin, i>>

(***************************************************************************)
(* Specification of the 13F filing locator on one index page: the body of  *)
(* the loop of fetch_latest_13f_filings for the first investor, on a page  *)
(* drawn from pages whose rows carry the labels 13F-HR, 13F-HR/A, 13F-NT.  *)
(***************************************************************************)
Row13FKinds ==
    [ncols : {3, 5},
     label : {L_13F_HR, L_13F_HR \o <<"/", "A">>, <<"1", "3", "F", "-", "N", "T">>},
     date : {D_2024_09_30 \o <<" ">>},
     link : {None, Some(0)}]

Index13FPages ==
    {NoPage} \cup {[table |-> TRUE, rows |-> Numbered(k)] : k \in SeqsUpTo(Row13FKinds, MaxRows)}

\* "if not table: continue", else the loop over rows[:max_per_investor]
FilingRefsOfPage(page, investor) ==
    IF ~page.table THEN <<>> ELSE FilingRefs(Take(page.rows, MaxPerInvestor), investor)

InitLocate13F ==
    /\ pc = "locate_page"
    /\ variant = "13f"
    /\ html_content \in Index13FPages
    /\ filings = <<>>
    /\ IdleExcept({"Locator"})

Locate13FPage ==
    /\ pc = "locate_page"
    /\ filings' = filings \o FilingRefsOfPage(html_content, MAJOR_INVESTORS[1])
    /\ pc' = "located_page"
    /\ UNCHANGED <<variant, html_content, NotLocator>>

NextLocate13F == Locate13FPage

SpecLocate13F == InitLocate13F /\ [][NextLocate13F]_vars

\* C20: every filing reference the 13F locator returns comes from a row whose
\* filing-type label is exactly "13F-HR"; a row with another label is not returned.
C20_OnlyExact13FHRRows ==
    pc = "located_page" =>
        \A k \in 1..Len(filings) :
            Strip(html_content.rows[filings[k].documents_url[2]].label) = L_13F_HR

\* The last document request of the resolution raised.
LastDocumentFailed == fetched # <<>> /\ fetched[Len(fetched)].outcome = "failed"

\* C21: in download_and_parse_13f a transport failure of one candidate document
\* counts as that document yielding nothing: a resolution ends on a failed
\* request only when no lower-preference candidate (another .xml link, then the
\* .txt links) is left to try.
C21_FailedDocumentFallsBack ==
    (variant = "13f" /\ pc = "resolved" /\ soup # None /\ LastDocumentFailed) =>
        CandidatesFrom(soup[1], strategy, link_idx + 1) = <<>>

\* The elements of the parsed document whose text is the identifier.
CusipHits == {e \in 1..Len(xml_text.nodes) : IsCusipHit(xml_text.nodes[e])}

\* The occurrences for which some round of the upward walk finds a pair that validates.
ValidHits == {e \in CusipHits : WalkUp(xml_text.nodes, e, AncestorLevels) # None}

\* C22: in parse_13f_xml_robust an identifier occurrence whose shares and value
\* fail validation is discarded and the traversal goes on with the next
\* occurrence: the result is the holding of the first occurrence in document
\* order that validates, and None if and only if no occurrence validates.
C22_FirstValidOccurrenceWins ==
    (pc = "parsed_13f_xml" /\ xml_text.wellFormed) =>
        IF ValidHits = {} THEN xml_result = None
        ELSE xml_result = WalkUp(xml_text.nodes, Min(ValidHits), AncestorLevels)

\* Two Workday rows before a row of another security: the first occurrence fails
\* validation, the second one is returned.
C22_Witness ==
    /\ pc = "parsed_13f_xml"
    /\ xml_result = Some([shares |-> 1000000, value_dollars |-> 250000000])
    /\ \E e1 \in CusipHits \ ValidHits : \E e2 \in ValidHits : e1 < e2

\* The data rows that enclose element e: its <infoTable> ancestors.
DataRowsOf(e) ==
    {a \in 1..(e - 1) : e \in Subtree(xml_text.nodes, a) /\ xml_text.nodes[a].tag = "infoTable"}

\* The numbers the elements with one of the tags carry inside data row a.
NumbersInRow(a, tags) ==
    {IntOf(Strip(xml_text.nodes[j].text[1])) :
        j \in {k \in Subtree(xml_text.nodes, a) :
                 xml_text.nodes[k].tag \in tags /\ HasDigits(xml_text.nodes[k])}}

\* C23: the shares and the value parse_13f_xml_robust returns come from the data
\* row of an identifier occurrence, never from the row of another security only.
C23_ValuesFromRowOfIdentifier ==
    (pc = "parsed_13f_xml" /\ xml_result # None) =>
        \E e \in CusipHits : \E a \in DataRowsOf(e) :
            /\ xml_result[1].shares \in NumbersInRow(a, SharesTags)
            /\ xml_result[1].value_dollars
                   \in {v * ValueScale : v \in NumbersInRow(a, ValueTags)}

\* The numeric tokens of each line that count: none on a line that holds the
\* identifier, and neither 98138 nor 98138101.
LineTokens ==
    [j \in 1..Len(text_content) |->
        IF Contains(text_content[j], WDAY_CUSIP) THEN {}
        ELSE {NumberOf(t) : t \in Range(FindNumbers(text_content[j], 1))}
                 \ {98138, 98138101}]

\* The tokens of the window of identifier line i: 3 lines before to 3 lines after.
WindowTokens(tokens, i) ==
    UNION {tokens[j] : j \in {k \in DOMAIN tokens : i - 3 <= k /\ k <= i + 3}}

ShareBand(numbers) == {n \in numbers : 100000 < n /\ n < 50000000}

ValueBand(numbers) == {n \in numbers : n > 10000000}

\* The candidate pair of an occurrence: the smallest token of each band, or None
\* when a band is empty.
CandidatePair(tokens, i) ==
    LET numbers == WindowTokens(tokens, i)
    IN  IF ShareBand(numbers) = {} \/ ValueBand(numbers) = {} THEN None
        ELSE Some([shares |-> Min(ShareBand(numbers)),
                   value_dollars |-> Min(ValueBand(numbers))])

\* The pair lies in the 150x-350x band.
InPriceBand(pair) ==
    150 * pair.shares < pair.value_dollars /\ pair.value_dollars < 350 * pair.shares

\* The occurrence passes every gate.
Passes(tokens, i) ==
    LET pair == CandidatePair(tokens, i)
    IN  pair # None /\ InPriceBand(pair[1]) /\ WindowNamesCompany(i)

\* C24: parse_13f_text_strict returns the record of the first identifier line
\* that passes every gate, its shares the smallest share-band token and its
\* value the smallest value-band token of the window; an occurrence whose pair
\* fails the price gate is passed over, and the result is None if and only if
\* no occurrence passes.
C24_FirstPassingOccurrenceSmallestTokens ==
    pc = "parsed_13f_text" =>
        LET tokens == LineTokens
            passing == {i \in IdentifierLines : Passes(tokens, i)}
        IN  IF passing = {} THEN text_result = None
            ELSE text_result = CandidatePair(tokens, Min(passing))

\* The first identifier line has a candidate pair out of the price band; a later
\* one, whose window holds a smaller value token, gives the record.
C24_Witness ==
    /\ pc = "parsed_13f_text"
    /\ text_result # None
    /\ \E i \in IdentifierLines :
          /\ \A k \in IdentifierLines : k < i => ~Passes(LineTokens, k)
          /\ WindowNamesCompany(i)
          /\ CandidatePair(LineTokens, i) # None
          /\ ~InPriceBand(CandidatePair(LineTokens, i)[1])
          /\ CandidatePair(LineTokens, i)[1].value_dollars # text_result[1].value_dollars

\* C25: every holding fetch_all_holdings accumulates, from the structured parser
\* or from the text fallback, has shares above the floor of 100000 and a value
\* above 0; so has the result of a resolution that is about to be accumulated.
C25_HoldingsAboveFloor ==
    variant = "13f" =>
        /\ \A k \in 1..Len(holdings) :
              holdings[k].shares > 100000 /\ holdings[k].value_dollars > 0
        /\ (pc = "resolved" /\ result # None) =>
              result[1].shares > 100000 /\ result[1].value_dollars > 0

\* A holding is accumulated, and the text fallback of the next filing has just
\* given another one.
C25_Witness ==
    /\ variant = "13f"
    /\ pc = "resolved"
    /\ Len(holdings) = 1
    /\ result # None
    /\ fetched # <<>>
    /\ fetched[Len(fetched)] = Fetched(3, 1, "holding")

\* The record of an investor that survives the deduplication: the first input
\* record that carries the investor's latest filing_date.
DeduplicatedRecord(name) == holdings[Min(LatestRecordsOf(name))]

RECURSIVE SumOverInvestors(_, _)
SumOverInvestors(names, field) ==
    IF names = {} THEN 0
    ELSE LET n == CHOOSE x \in names : TRUE
         IN  DeduplicatedRecord(n)[field] + SumOverInvestors(names \ {n}, field)

\* C26: for a non-empty input calculate_stats computes the two totals and the
\* number of institutions over the deduplicated records only, lists
\* holdings_by_investor in non-increasing order of shares and names as
\* largest_holder an investor whose shares is the maximum of that list;
\* generate_cluster_data lists the same investors in non-increasing order of value.
C26_StatsOverDeduplicatedRecords ==
    pc = "aggregated" =>
        LET kept == stats[1].holdings_by_investor
            names == InvestorsIn(holdings)
        IN  /\ stats[1].total_institutional_shares = SumOverInvestors(names, "shares")
            /\ stats[1].total_institutional_value = SumOverInvestors(names, "value_dollars")
            /\ stats[1].number_of_institutions = Cardinality(names)
            /\ \A k \in 1..(Len(kept) - 1) : kept[k].shares >= kept[k + 1].shares
            /\ \E k \in 1..Len(kept) :
                  /\ kept[k].investor_name = stats[1].largest_holder
                  /\ kept[k].shares = stats[1].largest_holder_shares
                  /\ \A j \in 1..Len(kept) : kept[j].shares <= kept[k].shares
            /\ {cluster[k].name : k \in 1..Len(cluster)} = InvestorsIn(kept)
            /\ Len(cluster) = Len(kept)
            /\ \A k \in 1..(Len(cluster) - 1) : cluster[k].value >= cluster[k + 1].value

\* Three records of two investors, one of them superseded by a later filing of
\* more shares: the totals leave it out, and the later filing leads both lists.
C26_Witness ==
    /\ pc = "aggregated"
    /\ Len(holdings) = 3
    /\ stats[1].number_of_institutions = 2
    /\ stats[1].total_institutional_shares = 3000000
    /\ SumField(holdings, "shares") = 4000000
    /\ stats[1].holdings_by_investor[1].shares > stats[1].holdings_by_investor[2].shares
    /\ cluster[1].value > cluster[2].value
    /\ holdings[1].investor_name = stats[1].largest_holder
    /\ holdings[1] # stats[1].holdings_by_investor[1]

\* The list is in non-increasing order of transaction_date.
DatesDescending(list) ==
    \A k \in 1..(Len(list) - 1) :
        ~StrGt(list[k + 1].transaction_date[1], list[k].transaction_date[1])

\* C27: in the executive summary each executive's latest transaction is the
\* maximum transaction_date string over that executive's records, wherever it
\* stands in the input, and the summary is in non-increasing order of
\* total_sales; the list of GET /transactions and the list written to
\* transactions.json are in non-increasing order of transaction_date.
C27_LatestDateAndOrders ==
    /\ pc = "summarised" =>
          /\ \A k \in 1..Len(executives) :
                /\ \E i \in RecordsOf(executives[k].name) :
                      all_transactions[i].transaction_date = executives[k].latest_transaction
                /\ \A i \in RecordsOf(executives[k].name) :
                      ~StrGt(all_transactions[i].transaction_date[1],
                             executives[k].latest_transaction[1])
          /\ \A k \in 1..(Len(executives) - 1) :
                executives[k].total_sales >= executives[k + 1].total_sales
          /\ variant = "static" => DatesDescending(all_transactions)
    /\ pc = "listed" =>
          /\ DatesDescending(transactions)
          /\ Len(transactions) = Len(all_transactions)
          /\ Range(transactions) = Range(all_transactions)

\* The stored records of one executive run 2024-01-15, 2024-03-01, 2024-01-15:
\* the latest transaction is the one in the middle.
C27_Witness ==
    /\ pc = "summarised"
    /\ variant = "server"
    /\ Len(all_transactions) = 3
    /\ Len(executives) = 1
    /\ all_transactions[1].transaction_date = Some(D_2024_01_15)
    /\ all_transactions[2].transaction_date = Some(D_2024_03_01)
    /\ all_transactions[3].transaction_date = Some(D_2024_01_15)
    /\ executives[1].latest_transaction = Some(D_2024_03_01)

\* C28: POST /transactions/refresh leaves the store as it was when the request
\* of the filings index fails, and a refresh whose index request succeeded ends
\* with the store holding exactly the records extracted in that run (none when
\* the run extracted none).
C28_ReplaceOnRefresh ==
    [][variant = "server" =>
          /\ (pc = "index" /\ pc' = "done") => store' = store
          /\ (pc = "insert" /\ pc' = "done") => store' = all_transactions]_vars

(***************************************************************************)
(* Two POST /transactions/refresh requests and GET /transactions requests  *)
(* served by one event loop.  A handler runs without interruption up to    *)
(* its next await; the requests to SEC are synchronous, so a refresh       *)
(* yields only at "await delete_many" and "await insert_many".  Here pc,   *)
(* all_transactions and outcome hold one value per handler.                *)
(***************************************************************************)
Refreshes == {"refresh_1", "refresh_2"}

Handlers == Refreshes \cup {"get_transactions"}

\* The record lists a refresh may extract from SEC.
RefreshResults ==
    {parse_form4_xml(d, date) : d \in RunForm4Docs, date \in {D_2024_06_30, D_2024_09_30}}

\* The store as an earlier refresh left it.
EarlierStore == CHOOSE s \in PriorStores : s # <<>>

NotConcurrent ==
    <<variant, xml_content, executives, vLocator, vXml13F, vText13F, vAggregate,
      investor_idx, filing_idx, soup, strategy, link_idx, result, fetched,
      last_io, back_to_back, failed_filings>>

InitConcurrent ==
    /\ pc = [h \in Handlers |-> "start"]
    /\ variant = "server"
    /\ all_transactions = [r \in Refreshes |-> <<>>]
    /\ outcome = [r \in Refreshes |-> "running"]
    /\ store = EarlierStore
    /\ transactions = <<>>
    /\ xml_content = NoDoc
    /\ executives = <<>>
    /\ IdleExcept({"Form4", "Summary", "Run"})
    /\ investor_idx = 1
    /\ filing_idx = 1
    /\ soup = None
    /\ strategy = 1
    /\ link_idx = 1
    /\ result = None
    /\ fetched = <<>>
    /\ last_io = "none"
    /\ back_to_back = FALSE
    /\ failed_filings = {}

\* lines 251-253: the index request fails, 500 before the store is touched
RefreshIndexFails(r) ==
    /\ pc[r] = "start"
    /\ pc' = [pc EXCEPT ![r] = "done"]
    /\ outcome' = [outcome EXCEPT ![r] = "http_500"]
    /\ UNCHANGED <<all_transactions, store, transactions, NotConcurrent>>

\* lines 251-267: the filings are fetched and parsed, then delete_many is awaited
RefreshExtracts(r) ==
    /\ pc[r] = "start"
    /\ \E list \in RefreshResults :
          all_transactions' = [all_transactions EXCEPT ![r] = list]
    /\ pc' = [pc EXCEPT ![r] = "delete_many"]
    /\ UNCHANGED <<outcome, store, transactions, NotConcurrent>>

\* lines 267-278: delete_many takes effect and the handler resumes: it answers
\* when there is nothing to insert, answers 500 when a record fails validation,
\* and awaits insert_many otherwise
AwaitDeleteMany(r) ==
    /\ pc[r] = "delete_many"
    /\ store' = <<>>
    /\ IF all_transactions[r] = <<>>
       THEN /\ pc' = [pc EXCEPT ![r] = "done"]
            /\ outcome' = [outcome EXCEPT ![r] = "success"]
       ELSE IF \E i \in 1..Len(all_transactions[r]) : ValidationRaises(all_transactions[r][i])
       THEN /\ pc' = [pc EXCEPT ![r] = "done"]
            /\ outcome' = [outcome EXCEPT ![r] = "http_500"]
       ELSE /\ pc' = [pc EXCEPT ![r] = "insert_many"]
            /\ UNCHANGED outcome
    /\ UNCHANGED <<all_transactions, transactions, NotConcurrent>>

\* lines 278-284: insert_many takes effect and the handler answers
AwaitInsertMany(r) ==
    /\ pc[r] = "insert_many"
    /\ store' = store \o all_transactions[r]
    /\ pc' = [pc EXCEPT ![r] = "done"]
    /\ outcome' = [outcome EXCEPT ![r] = "success"]
    /\ UNCHANGED <<all_transactions, transactions, NotConcurrent>>

\* get_transactions(): find(...) reads the store, the sorted list is the response
ConcurrentGetTransactions ==
    /\ transactions' = SortDesc(store, "transaction_date")
    /\ pc' = [pc EXCEPT !["get_transactions"] = "read"]
    /\ UNCHANGED <<all_transactions, outcome, store, NotConcurrent>>

NextConcurrent ==
    \/ \E r \in Refreshes : RefreshIndexFails(r)
    \/ \E r \in Refreshes : RefreshExtracts(r)
    \/ \E r \in Refreshes : AwaitDeleteMany(r)
    \/ \E r \in Refreshes : AwaitInsertMany(r)
    \/ ConcurrentGetTransactions

SpecConcurrentRefresh == InitConcurrent /\ [][NextConcurrent]_vars

\* The refreshes whose record set is or will be the store's content.
ExtractingRuns ==
    {r \in Refreshes : pc[r] \in {"delete_many", "insert_many"} \/ outcome[r] = "success"}

\* C29: under any interleaving of two refreshes and reads at the await points,
\* once both refreshes have completed the store holds exactly one run's record
\* set with no record twice, and a read observes either the complete earlier
\* record set or the complete record set of one run, never a state between
\* delete_many and insert_many.
C29_ConcurrentRefreshesAtomic ==
    /\ (\A r \in Refreshes : pc[r] = "done" /\ outcome[r] = "success") =>
          \E r \in Refreshes : store = all_transactions[r]
    /\ pc["get_transactions"] = "read" =>
          transactions \in
              {SortDesc(s, "transaction_date") :
                  s \in {EarlierStore} \cup {all_transactions[r] : r \in ExtractingRuns}}

\* C30: within one resolution (download_and_parse_13f or fetch_and_parse_form4)
\* no document URL is requested twice, whatever the documents parse to.
C30_EachDocumentRequestedOnce ==
    soup # None =>
        \A j, k \in 1..Len(fetched) :
            soup[1][fetched[j].link].href = soup[1][fetched[k].link].href => j = k

====
